---- MODULE Spec2Model ----
(***************************************************************************)
(* Model of the settlement simulation of src/game.js: the per-day tick,    *)
(* the player actions that run between ticks, the event subsystem with its *)
(* seeded generator, and the interval scheduler that drives the tick.      *)
(*                                                                         *)
(* Numbers.  The program's reals (stocks, meters, pressures) are modelled  *)
(* in fixed point, as integers counting thousandths (SCALE = 1000); a      *)
(* product of two reals is truncated to a thousandth.  The unsigned 32-bit *)
(* words of the generator are pairs <<hi, lo>> of 16-bit halves, since a   *)
(* whole word does not fit the integers TLC computes with.                 *)
(***************************************************************************)
EXTENDS Integers, Sequences, FiniteSets, TLC

\* ------------------------------------------------------------------------
\* Fixed point
\* ------------------------------------------------------------------------
SCALE == 10 * 10 * 10

Min(a, b) == IF a < b THEN a ELSE b
Max(a, b) == IF a > b THEN a ELSE b

\* clamp(n, a, b) = Math.max(a, Math.min(b, n))
clamp(n, a, b) == Max(a, Min(b, n))

\* F(v), with v evaluated once (a local `const x = v` of the source)
Bind(v, F(_)) == CHOOSE r \in {F(x) : x \in {v}} : TRUE

\* Math.floor / Math.ceil of a value given in thousandths, as a whole number
FloorK(x) == x \div SCALE
CeilK(x) == ((x + SCALE) - 1) \div SCALE

\* ------------------------------------------------------------------------
\* Unsigned 32-bit words as <<hi, lo>>
\* ------------------------------------------------------------------------
W16 == 256 * 256

\* bitwise exclusive or, bit by bit
RECURSIVE XorBits(_, _)
XorBits(a, b) ==
  IF a = 0 THEN b
  ELSE IF b = 0 THEN a
  ELSE (((a % 2) + (b % 2)) % 2) + 2 * XorBits(a \div 2, b \div 2)

\* the same on 16-bit halves, four bits at a time from a table of XorBits
XorNib == [a \in 0..15 |-> [b \in 0..15 |-> XorBits(a, b)]]

Xor16(a, b) ==
  XorNib[a % 16][b % 16]
    + 16 * XorNib[(a \div 16) % 16][(b \div 16) % 16]
    + 256 * XorNib[(a \div 256) % 16][(b \div 256) % 16]
    + 4096 * XorNib[a \div 4096][b \div 4096]

RECURSIVE Or16(_, _)
Or16(a, b) ==
  IF a = 0 THEN b
  ELSE IF b = 0 THEN a
  ELSE (IF (a % 2) + (b % 2) > 0 THEN 1 ELSE 0) + 2 * Or16(a \div 2, b \div 2)

Xor32(x, y) == <<Xor16(x[1], y[1]), Xor16(x[2], y[2])>>
Or32(x, y) == <<Or16(x[1], y[1]), Or16(x[2], y[2])>>

\* (x + y) mod 2^32
Add32(x, y) ==
  LET lo == x[2] + y[2]
  IN  <<(x[1] + y[1] + (lo \div W16)) % W16, lo % W16>>

\* low 16 bits of a * b, for 16-bit a and b
MulLo16(a, b) == ((a * (b % 256)) + (((a * (b \div 256)) % 256) * 256)) % W16

\* Math.imul(x, y): the low 32 bits of the product
Imul(x, y) ==
  LET p0 == x[2] * (y[2] % 256)
      p1 == x[2] * (y[2] \div 256)
      s  == p0 + ((p1 % 256) * 256)
      lhi == (s \div W16) + (p1 \div 256)
  IN  <<(lhi + MulLo16(x[1], y[2]) + MulLo16(x[2], y[1])) % W16, s % W16>>

\* x >>> k, for 0 < k < 16
Pow2(k) == CASE k = 7 -> 128 [] k = 14 -> 16384 [] k = 15 -> 32768
Shr32(x, k) ==
  <<x[1] \div Pow2(k), (x[2] \div Pow2(k)) + (x[1] % Pow2(k)) * (W16 \div Pow2(k))>>

\* floor(u * K / 2^32) for a word u and 0 <= K <= 32767: Math.floor(r * K) for
\* the draw r = u / 4294967296
ScaleDraw(u, K) == ((u[1] * K) + ((u[2] * K) \div W16)) \div W16

\* u * K = c * 2^32 exactly
ScaleExact(u, K, c) ==
  /\ ScaleDraw(u, K) = c
  /\ ((u[1] * K) + ((u[2] * K) \div W16)) % W16 = 0
  /\ (u[2] * K) % W16 = 0

\* r < c / K and r > c / K for the draw r = u / 2^32
DrawLess(u, c, K) == ScaleDraw(u, K) < c
DrawGreater(u, c, K) == ScaleDraw(u, K) >= c /\ ~ScaleExact(u, K, c)

\* ------------------------------------------------------------------------
\* Seeded generator
\* ------------------------------------------------------------------------
\* The decimal digits of a word, most significant first: String(n)
RECURSIVE DigitsOf(_)
DigitsOf(x) ==
  \* x = <<hi, lo>>; long division of hi * 65536 + lo by 10
  LET r1 == x[1] % 10
      q1 == x[1] \div 10
      t  == (r1 * W16) + x[2]
      q  == <<q1, t \div 10>>
      d  == t % 10
  IN  IF q = <<0, 0>> THEN <<d>> ELSE Append(DigitsOf(q), d)

FNV_OFFSET == <<33052, 40389>>   \* 2166136261

\* h ^= s.charCodeAt(i); h = Math.imul(h, 16777619), for the digit d.  Only
\* the low byte of h meets the character code; 16777619 = 2^24 + 403.
FnvStep(h, d) ==
  LET l == ((h[2] \div 256) * 256) + Xor16(h[2] % 256, 48 + d)
      m == l * 403
  IN  <<((h[1] * 403) + (m \div W16) + ((l % 256) * 256)) % W16, m % W16>>

RECURSIVE FnvFold(_, _, _)
FnvFold(h, ds, i) ==
  IF i > Len(ds) THEN h ELSE FnvFold(FnvStep(h, ds[i]), ds, i + 1)

\* hashSeed of a non-negative number: FNV-1a over its decimal digits
hashSeed(x) == FnvFold(FNV_OFFSET, DigitsOf(x), 1)

MULBERRY_INC == <<27947, 31221>>   \* 0x6D2B79F5

\* One call of the closure mulberry32 returns: [a |-> the closure's new
\* counter, u |-> the draw times 2^32]
mulberry32(a0) ==
  Bind(Add32(a0, MULBERRY_INC), LAMBDA a :
  Bind(Imul(Xor32(a, Shr32(a, 15)), Or32(<<0, 1>>, a)), LAMBDA t1 :
  Bind(Xor32(Add32(t1, Imul(Xor32(t1, Shr32(t1, 7)), Or32(<<0, 61>>, t1))), t1), LAMBDA t2 :
    [a |-> a, u |-> Xor32(t2, Shr32(t2, 14))])))

\* Math.floor(r * 1e9) for the draw r = u / 2^32, as a word.  1e9 / 2^32 is
\* 1953125 / 2^23; the product is taken byte by byte to stay within range.
DrawTimes1e9(u) ==
  LET M  == 1953125
      t0 == (u[2] % 256) * M
      t1 == ((u[2] \div 256) * M) + (t0 \div 256)
      t2 == ((u[1] % 256) * M) + (t1 \div 256)
      t3 == ((u[1] \div 256) * M) + (t2 \div 256)
      q  == (2 * t3) + ((t2 % 256) \div 128)
  IN  <<q \div W16, q % W16>>

\* rng.next() of makeRng: r |-> the closure after the draw and the word drawn,
\* rngState |-> state.rngState after the draw
rngNext(a0, rngState) ==
  Bind(mulberry32(a0), LAMBDA m :
    [a |-> m.a, u |-> m.u, rngState |-> hashSeed(Xor32(rngState, DrawTimes1e9(m.u)))])

DEFAULT_SEED == <<0, 1337>>

\* ------------------------------------------------------------------------
\* CONFIG (reals in thousandths)
\* ------------------------------------------------------------------------
FOOD_PER_WORKER == 1000
WOOD_PER_WORKER == 800
TOOLS_PER_WORKER == 350
FARM_WOOD_COST == 30000
FARM_FOOD_MULT_PER_FARM == 80
TOOLS_SOFTCAP == 100000
TOOLS_BONUS_PER_TOOL == 2
TOOLS_MIN_BONUS == 1000
TOOLS_DECAY_FLAT == 1000
TOOLS_DECAY_PER_POP == 50
FOOD_CONSUMPTION_PER_POP == 1000
RATION_CONSUMPTION_MULT == 750
FEAST_CONSUMPTION_MULT == 1250
RATION_DAYS == 5
FEAST_DAYS == 3
MOOD_MAX == 100000
MOOD_MIN == 0
AUTH_MAX == 100000
AUTH_MIN == 0
STARVATION_MOOD_LOSS_MULT == 150
STARVATION_MOOD_LOSS_MIN == 2000
STARVATION_MOOD_LOSS_MAX == 18000
STARVATION_DEATH_DEFICIT_RATIO == 800
STARVE_MOOD_MULT_PER_DAY == 80
STARVE_DEATH_MULT_PER_DAY == 50
STARVE_DEATH_MAX_PER_DAY_RATIO == 350
PRESSURE_MAX == 100000
PRESSURE_MIN == 0
P_DECAY_BASE == 600
P_SUBS_FROM_DEFICIT_MULT == 550
P_SUBS_STREAK_MULT == 250
P_SEC_FROM_LOW_MOOD_MULT == 120
P_SHOCK_FROM_DEATHS == 600
AUTH_BLEED_BASE == 250
AUTH_BLEED_PSUBS_MULT == 45
AUTH_BLEED_PSEC_MULT == 40
AUTH_BLEED_PEXTR_MULT == 30
AUTH_RECOVER_BASE == 250
AUTH_RECOVER_CAP == 85000
MOOD_RECOVER_IF_WELL_FED_RATIO == 3
MOOD_DRIFT_UP == 600
MOOD_DRIFT_CAP == 85000
MOOD_DRIFT_DOWN_IF_TOO_HIGH == 200
MOOD_TOO_HIGH == 90000
MIGRATION_MIN_POP == 6
MIGRATION_TRIGGER_PSUBS == 55000
MIGRATION_TRIGGER_PSEC == 55000
MIGRATION_TRIGGER_MOOD == 35000
MIGRATION_STREAK_START == 3
MIGRATION_PER_DAY_MIN == 1
MIGRATION_PER_DAY_MAX_RATIO == 80
MIGRATION_STREAK_MULT == 120
EVENT_BASE_CHANCE == 50
EVENT_LOW_MOOD_BONUS == 100
EVENT_HIGH_PSUBS_BONUS == 120
EVENT_HIGH_PSEC_BONUS == 100
EVENT_LOW_MOOD_THRESHOLD == 35000
EVENT_HIGH_P_THRESHOLD == 55000
WIN_DAY == 50
DEFAULT_SPEED_MS == 5000
STOCK_MAX == 999999000

\* a * b for two reals in thousandths
MulK(a, b) == (a * b) \div SCALE

\* ------------------------------------------------------------------------
\* State
\* ------------------------------------------------------------------------
INITIAL(seed) ==
  LET seedU32 == hashSeed(seed)
  IN  [day |-> 1, mode |-> "auto", paused |-> FALSE, gameOver |-> FALSE, win |-> FALSE,
       seed |-> seedU32, rngState |-> seedU32,
       pop |-> 30, food |-> 80000, wood |-> 40000, tools |-> 10000,
       mood |-> 70000, authority |-> 70000,
       pSubsistence |-> 0, pSecurity |-> 0, pExtraction |-> 0,
       starveDays |-> 0, depopStreak |-> 0,
       workersFood |-> 10, workersWood |-> 5, workersTools |-> 0,
       farms |-> 0, rationing |-> 0, feasting |-> 0,
       activeEvent |-> "null", tickSpeedMs |-> DEFAULT_SPEED_MS]

\* ------------------------------------------------------------------------
\* Core math
\* ------------------------------------------------------------------------
farmBonusMult(s) == SCALE + s.farms * FARM_FOOD_MULT_PER_FARM

toolsBonusMult(s) ==
  LET effectiveTools == clamp(s.tools, 0, TOOLS_SOFTCAP)
      mult == SCALE + MulK(effectiveTools, TOOLS_BONUS_PER_TOOL)
  IN  Max(TOOLS_MIN_BONUS, mult)

foodPerDay(s) == MulK(MulK(s.workersFood * FOOD_PER_WORKER, farmBonusMult(s)), toolsBonusMult(s))

woodPerDay(s) == MulK(s.workersWood * WOOD_PER_WORKER, toolsBonusMult(s))

toolsPerDay(s) == s.workersTools * TOOLS_PER_WORKER

toolsDecayPerDay(s) == TOOLS_DECAY_FLAT + s.pop * TOOLS_DECAY_PER_POP

foodConsumptionPerDay(s) ==
  LET c0 == s.pop * FOOD_CONSUMPTION_PER_POP
      c1 == IF s.rationing > 0 THEN MulK(c0, RATION_CONSUMPTION_MULT) ELSE c0
  IN  IF s.feasting > 0 THEN MulK(c1, FEAST_CONSUMPTION_MULT) ELSE c1

\* ------------------------------------------------------------------------
\* Workforce
\* ------------------------------------------------------------------------
WorkKeys == <<"workersFood", "workersWood", "workersTools">>

\* an order that puts priorityKey first: C7 must tell it apart
clampOrderPriorityFirst(priorityKey) ==
  IF priorityKey \in {WorkKeys[i] : i \in 1..3}
  THEN <<priorityKey>> \o SelectSeq(WorkKeys, LAMBDA k : k # priorityKey)
  ELSE WorkKeys

\* an order that, without a priority slot, starts at the tools slot
clampOrderToolsFirst(priorityKey) ==
  IF priorityKey \in {WorkKeys[i] : i \in 1..3}
  THEN SelectSeq(WorkKeys, LAMBDA k : k # priorityKey) \o <<priorityKey>>
  ELSE <<"workersTools", "workersWood", "workersFood">>

\* keys.slice() with priorityKey moved to the end
clampOrderOf(priorityKey) ==
  IF priorityKey \in {WorkKeys[i] : i \in 1..3}
  THEN SelectSeq(WorkKeys, LAMBDA k : k # priorityKey) \o <<priorityKey>>
  ELSE WorkKeys

\* the reduction loop over clampOrder, from position i with `overflow` left
RECURSIVE reduceOverflow(_, _, _, _)
reduceOverflow(s, order, i, overflow) ==
  IF i > Len(order) \/ overflow <= 0 THEN s
  ELSE LET k == order[i]
           d == Min(s[k], overflow)
       IN  reduceOverflow([s EXCEPT ![k] = @ - d], order, i + 1, overflow - d)

\* validateWorkforce whose loop takes at most one worker from each slot: C6
\* must tell it apart
validateWorkforceOneEach(s, priorityKey) ==
  LET c == [s EXCEPT !.workersFood = clamp(@, 0, s.pop),
                     !.workersWood = clamp(@, 0, s.pop),
                     !.workersTools = clamp(@, 0, s.pop)]
      total == c.workersFood + c.workersWood + c.workersTools
      order == clampOrderOf(priorityKey)
      take(r, k, left) == IF left > 0 /\ r[k] > 0 THEN [r EXCEPT ![k] = @ - 1] ELSE r
      r1 == take(c, order[1], total - c.pop)
      r2 == take(r1, order[2], total - c.pop - (c[order[1]] - r1[order[1]]))
      r3 == take(r2, order[3], total - c.pop - (c[order[1]] - r1[order[1]])
                                 - (r1[order[2]] - r2[order[2]]))
  IN  IF total <= c.pop THEN c ELSE r3

validateWorkforce(s, priorityKey) ==
  LET c == [s EXCEPT !.workersFood = clamp(@, 0, s.pop),
                     !.workersWood = clamp(@, 0, s.pop),
                     !.workersTools = clamp(@, 0, s.pop)]
      total == c.workersFood + c.workersWood + c.workersTools
  IN  IF total <= c.pop THEN c
      ELSE reduceOverflow(c, clampOrderOf(priorityKey), 1, total - c.pop)

\* ------------------------------------------------------------------------
\* Presets
\* ------------------------------------------------------------------------
PresetNames == {"maxFood", "maxWood", "balanced", "survival"}

PRESETS ==
  [maxFood  |-> [food |-> 1000, wood |-> 0, tools |-> 0],
   maxWood  |-> [food |-> 0, wood |-> 1000, tools |-> 0],
   balanced |-> [food |-> 550, wood |-> 300, tools |-> 150],
   survival |-> [food |-> 750, wood |-> 200, tools |-> 50]]

\* the first loop of applyPreset: hand out the unused workers food, wood, tools
RECURSIVE presetFill(_, _)
presetFill(a, pop) ==
  LET used == a.f + a.w + a.t
  IN  IF used >= pop THEN a
      ELSE IF used + 1 >= pop THEN [a EXCEPT !.f = @ + 1]
      ELSE IF used + 2 >= pop THEN [a EXCEPT !.f = @ + 1, !.w = @ + 1]
      ELSE presetFill([f |-> a.f + 1, w |-> a.w + 1, t |-> a.t + 1], pop)

\* the second loop: take back from tools, then wood, then food
RECURSIVE presetTrim(_, _)
presetTrim(a, pop) ==
  IF a.f + a.w + a.t <= pop THEN a
  ELSE IF a.t > 0 THEN presetTrim([a EXCEPT !.t = @ - 1], pop)
  ELSE IF a.w > 0 THEN presetTrim([a EXCEPT !.w = @ - 1], pop)
  ELSE IF a.f > 0 THEN presetTrim([a EXCEPT !.f = @ - 1], pop)
  ELSE a

\* applyPreset without its two rounding loops
applyPresetNoRounding(s, name) ==
  IF name \notin PresetNames THEN s
  ELSE LET preset == PRESETS[name]
       IN  validateWorkforce([s EXCEPT !.workersFood = Max(0, FloorK(s.pop * preset.food)),
                                       !.workersWood = Max(0, FloorK(s.pop * preset.wood)),
                                       !.workersTools = Max(0, FloorK(s.pop * preset.tools))],
                             "null")

applyPreset(s, name) ==
  IF name \notin PresetNames THEN s
  ELSE LET preset == PRESETS[name]
           a0 == [f |-> Max(0, FloorK(s.pop * preset.food)),
                  w |-> Max(0, FloorK(s.pop * preset.wood)),
                  t |-> Max(0, FloorK(s.pop * preset.tools))]
           a  == presetTrim(presetFill(a0, s.pop), s.pop)
       IN  validateWorkforce([s EXCEPT !.workersFood = a.f,
                                       !.workersWood = a.w,
                                       !.workersTools = a.t], "null")

\* ------------------------------------------------------------------------
\* Event system
\* ------------------------------------------------------------------------
\* a cost or effect record names every field; 0 stands for an absent key
NoCost == [food |-> 0, wood |-> 0, tools |-> 0]
NoEffects == [food |-> 0, wood |-> 0, tools |-> 0, mood |-> 0, authority |-> 0,
              pSubsistence |-> 0, pSecurity |-> 0, pExtraction |-> 0]

canAfford(s, cost) ==
  /\ ~(cost.food # 0 /\ s.food < cost.food)
  /\ ~(cost.wood # 0 /\ s.wood < cost.wood)
  /\ ~(cost.tools # 0 /\ s.tools < cost.tools)

payCost(s, cost) ==
  [s EXCEPT !.food = clamp(@ - cost.food, 0, STOCK_MAX),
            !.wood = clamp(@ - cost.wood, 0, STOCK_MAX),
            !.tools = clamp(@ - cost.tools, 0, STOCK_MAX)]

\* applyEffects with the meters left unclamped: C2 must tell it apart
applyEffectsUnclamped(s, effects) ==
  [s EXCEPT !.food = @ + effects.food,
            !.wood = @ + effects.wood,
            !.tools = @ + effects.tools,
            !.mood = @ + effects.mood,
            !.authority = @ + effects.authority,
            !.pSubsistence = @ + effects.pSubsistence,
            !.pSecurity = @ + effects.pSecurity,
            !.pExtraction = @ + effects.pExtraction]

applyEffects(s, effects) ==
  [s EXCEPT !.food = @ + effects.food,
            !.wood = @ + effects.wood,
            !.tools = @ + effects.tools,
            !.mood = IF effects.mood # 0 THEN clamp(@ + effects.mood, MOOD_MIN, MOOD_MAX) ELSE @,
            !.authority = IF effects.authority # 0
                          THEN clamp(@ + effects.authority, AUTH_MIN, AUTH_MAX) ELSE @,
            !.pSubsistence = IF effects.pSubsistence # 0
                             THEN clamp(@ + effects.pSubsistence, PRESSURE_MIN, PRESSURE_MAX) ELSE @,
            !.pSecurity = IF effects.pSecurity # 0
                          THEN clamp(@ + effects.pSecurity, PRESSURE_MIN, PRESSURE_MAX) ELSE @,
            !.pExtraction = IF effects.pExtraction # 0
                            THEN clamp(@ + effects.pExtraction, PRESSURE_MIN, PRESSURE_MAX) ELSE @]

Eff(r) == [k \in DOMAIN NoEffects |-> IF k \in DOMAIN r THEN r[k] ELSE 0]
Cost(r) == [k \in DOMAIN NoCost |-> IF k \in DOMAIN r THEN r[k] ELSE 0]

EventKeys == {"TRADERS", "THEFT", "RIOT", "COUP_WHISPERS"}

\* EVENTS[key].weight()
eventWeight(s, key) ==
  CASE key = "TRADERS" -> 1000
    [] key = "THEFT" -> IF s.pSubsistence >= EVENT_HIGH_P_THRESHOLD THEN 1200 ELSE 600
    [] key = "RIOT" -> IF s.pSecurity >= EVENT_HIGH_P_THRESHOLD THEN 1200 ELSE 700
    [] key = "COUP_WHISPERS" ->
         LET a == SCALE + MulK(50000 - s.authority, 30)
             p == SCALE + MulK(s.pSubsistence + s.pSecurity, 4)
         IN  clamp(MulK(a, p), 200, 2200)
    [] OTHER -> 0

\* EVENTS[key].options.length
optionCount(key) == IF key \in EventKeys THEN 2 ELSE 0

\* EVENTS[key].options[i].can()
\* every option's `can` answering true
optionCanAlways(s, key, i) == TRUE

optionCan(s, key, i) ==
  CASE key = "TRADERS" /\ i = 0 -> canAfford(s, Cost([wood |-> 20000]))
    [] key = "RIOT" /\ i = 0 -> canAfford(s, Cost([food |-> 25000]))
    [] OTHER -> TRUE

\* EVENTS.THEFT.options[0].run
theftPunish(s) ==
  LET s1 == applyEffects(s, Eff([mood |-> 4000, authority |-> 3000, pSecurity |-> -6000]))
  IN  Bind(rngNext(s.rngState, s.rngState), LAMBDA d :
        IF DrawLess(d.u, 350, 1000)
        THEN applyEffects([s1 EXCEPT !.rngState = d.rngState, !.pop = clamp(@ - 1, 0, 999999)],
                          Eff([mood |-> -2000, authority |-> -2000, pSubsistence |-> 2000]))
        ELSE [s1 EXCEPT !.rngState = d.rngState])

\* EVENTS.RIOT.options[1].run
riotForce(s) ==
  LET s1 == applyEffects(s, Eff([mood |-> 3000, authority |-> 4000, pSecurity |-> -5000]))
  IN  Bind(rngNext(s.rngState, s.rngState), LAMBDA d1 :
        IF DrawLess(d1.u, 500, 1000)
        THEN Bind(rngNext(d1.a, d1.rngState), LAMBDA d2 :
               LET loss == ScaleDraw(d2.u, (18 - 5) + 1) + 5
               IN  applyEffects([s1 EXCEPT !.rngState = d2.rngState,
                                           !.wood = clamp(@ - loss * SCALE, 0, STOCK_MAX)],
                                Eff([mood |-> -7000, authority |-> -5000, pSecurity |-> 6000])))
        ELSE [s1 EXCEPT !.rngState = d1.rngState])

\* EVENTS[key].options[i].run()
optionRun(s, key, i) ==
  CASE key = "TRADERS" /\ i = 0 ->
         applyEffects(payCost(s, Cost([wood |-> 20000])),
                      Eff([food |-> 35000, mood |-> 2000, authority |-> 1000]))
    [] key = "TRADERS" /\ i = 1 -> applyEffects(s, Eff([mood |-> -1000]))
    [] key = "THEFT" /\ i = 0 -> theftPunish(s)
    [] key = "THEFT" /\ i = 1 ->
         applyEffects(s, Eff([authority |-> -6000, mood |-> -2000, food |-> -6000,
                              pSecurity |-> 4000]))
    [] key = "RIOT" /\ i = 0 ->
         applyEffects(payCost(s, Cost([food |-> 25000])),
                      Eff([mood |-> 10000, authority |-> 6000, pSecurity |-> -10000,
                           pSubsistence |-> -6000]))
    [] key = "RIOT" /\ i = 1 -> riotForce(s)
    [] key = "COUP_WHISPERS" /\ i = 0 ->
         applyEffects(s, Eff([mood |-> 6000, authority |-> -2000, pExtraction |-> 4000]))
    [] key = "COUP_WHISPERS" /\ i = 1 ->
         applyEffects(s, Eff([authority |-> 6000, mood |-> -6000, pSecurity |-> 5000]))
    [] OTHER -> s

computeEventChance(s) ==
  LET c0 == EVENT_BASE_CHANCE
      c1 == IF s.mood < EVENT_LOW_MOOD_THRESHOLD THEN c0 + EVENT_LOW_MOOD_BONUS ELSE c0
      c2 == IF s.pSubsistence >= EVENT_HIGH_P_THRESHOLD THEN c1 + EVENT_HIGH_PSUBS_BONUS ELSE c1
      c3 == IF s.pSecurity >= EVENT_HIGH_P_THRESHOLD THEN c2 + EVENT_HIGH_PSEC_BONUS ELSE c2
  IN  clamp(c3, 0, 650)

\* the pool of maybeTriggerEvent, in push order
\* the pool holding every event whatever the conditions
eventPoolAll(s) == <<"TRADERS", "THEFT", "RIOT", "COUP_WHISPERS">>

eventPool(s) ==
  <<"TRADERS">>
  \o (IF s.pSubsistence >= EVENT_HIGH_P_THRESHOLD THEN <<"THEFT">> ELSE <<>>)
  \o (IF s.pSecurity >= EVENT_HIGH_P_THRESHOLD \/ s.mood < EVENT_LOW_MOOD_THRESHOLD
      THEN <<"RIOT">> ELSE <<>>)
  \o (IF s.authority < 45000 \/ (s.pSubsistence + s.pSecurity) > 110000
      THEN <<"COUP_WHISPERS">> ELSE <<>>)

RECURSIVE sumWeights(_, _)
sumWeights(ws, i) == IF i > Len(ws) THEN 0 ELSE ws[i] + sumWeights(ws, i + 1)

\* the selection loop: roll = r * total, roll -= weights[i], first roll <= 0 wins
RECURSIVE pickLoop(_, _, _, _, _, _)
pickLoop(keys, ws, u, total, i, cum) ==
  IF i > Len(keys) THEN keys[Len(keys)]
  ELSE LET c == cum + ws[i]
       IN  IF ScaleDraw(u, total) < c \/ ScaleExact(u, total, c) THEN keys[i]
           ELSE pickLoop(keys, ws, u, total, i + 1, c)

\* pickWeightedEvent(keys, rng): [pick, and the generator after its draw]
pickWeightedEvent(s, keys, a, rngState) ==
  Bind([i \in 1..Len(keys) |-> clamp(eventWeight(s, keys[i]), 0, 5000)], LAMBDA ws :
  Bind(sumWeights(ws, 1), LAMBDA total :
    IF total <= 0 THEN [pick |-> "null", rngState |-> rngState, draws |-> 0]
    ELSE Bind(rngNext(a, rngState), LAMBDA d :
           [pick |-> pickLoop(keys, ws, d.u, total, 1, 0),
            rngState |-> d.rngState, draws |-> 1])))

\* maybeTriggerEvent rolling although an event is pending
maybeTriggerEventOverPending(s) ==
  IF s.gameOver THEN [s |-> s, draws |-> 0]
  ELSE Bind(rngNext(s.rngState, s.rngState), LAMBDA d :
         IF DrawGreater(d.u, computeEventChance(s), 1000)
         THEN [s |-> [s EXCEPT !.rngState = d.rngState], draws |-> 1]
         ELSE Bind(pickWeightedEvent(s, eventPool(s), d.a, d.rngState), LAMBDA p :
                [s |-> [s EXCEPT !.rngState = p.rngState, !.activeEvent = p.pick],
                 draws |-> 1 + p.draws]))

\* maybeTriggerEvent whose failed roll leaves rngState where it was
maybeTriggerEventPeeks(s) ==
  IF s.activeEvent # "null" \/ s.gameOver THEN [s |-> s, draws |-> 0]
  ELSE Bind(rngNext(s.rngState, s.rngState), LAMBDA d :
         IF DrawGreater(d.u, computeEventChance(s), 1000)
         THEN [s |-> s, draws |-> 1]
         ELSE Bind(pickWeightedEvent(s, eventPool(s), d.a, d.rngState), LAMBDA p :
                [s |-> [s EXCEPT !.rngState = p.rngState, !.activeEvent = p.pick],
                 draws |-> 1 + p.draws]))

\* maybeTriggerEvent: [s |-> the state after, draws |-> rng.next() calls made]
maybeTriggerEvent(s) ==
  IF s.activeEvent # "null" \/ s.gameOver THEN [s |-> s, draws |-> 0]
  ELSE Bind(rngNext(s.rngState, s.rngState), LAMBDA d :
         IF DrawGreater(d.u, computeEventChance(s), 1000)
         THEN [s |-> [s EXCEPT !.rngState = d.rngState], draws |-> 1]
         ELSE Bind(pickWeightedEvent(s, eventPool(s), d.a, d.rngState), LAMBDA p :
                [s |-> [s EXCEPT !.rngState = p.rngState, !.activeEvent = p.pick],
                 draws |-> 1 + p.draws]))

\* resolveEvent(optionIndex), without its rendering
resolveEvent(s, optionIndex) ==
  IF s.activeEvent = "null" THEN s
  ELSE IF s.activeEvent \notin EventKeys THEN s
  ELSE IF optionIndex \notin 0..(optionCount(s.activeEvent) - 1) THEN s
  ELSE IF ~optionCan(s, s.activeEvent, optionIndex) THEN s
  ELSE [optionRun(s, s.activeEvent, optionIndex) EXCEPT !.activeEvent = "null"]

\* ------------------------------------------------------------------------
\* Player actions (the entries of `actions`)
\* ------------------------------------------------------------------------
\* buildFarm without the wood check
buildFarmUnguarded(s) ==
  applyEffects([s EXCEPT !.wood = @ - FARM_WOOD_COST, !.farms = @ + 1],
               Eff([mood |-> 2000, authority |-> 1000, pSubsistence |-> -2000]))

buildFarm(s) ==
  IF s.wood < FARM_WOOD_COST THEN s
  ELSE applyEffects([s EXCEPT !.wood = @ - FARM_WOOD_COST, !.farms = @ + 1],
                    Eff([mood |-> 2000, authority |-> 1000, pSubsistence |-> -2000]))

ration(s) ==
  applyEffects([s EXCEPT !.rationing = RATION_DAYS, !.feasting = 0],
               Eff([mood |-> -6000, authority |-> 1000, pSecurity |-> 2000]))

\* feast that leaves a running rationing timer alone: C8 must tell it apart
feastKeepsRationing(s) ==
  IF s.food < 20000 THEN s
  ELSE applyEffects([s EXCEPT !.feasting = FEAST_DAYS, !.food = @ - 10000],
                    Eff([mood |-> 8000, authority |-> 2000, pSubsistence |-> -3000]))

feast(s) ==
  IF s.food < 20000 THEN s
  ELSE applyEffects([s EXCEPT !.feasting = FEAST_DAYS, !.rationing = 0, !.food = @ - 10000],
                    Eff([mood |-> 8000, authority |-> 2000, pSubsistence |-> -3000]))

\* ------------------------------------------------------------------------
\* Tick phases
\* ------------------------------------------------------------------------
phaseValidate(s) == validateWorkforce(s, "null")

phasePolicyTimers(s) ==
  [s EXCEPT !.rationing = IF @ > 0 THEN @ - 1 ELSE @,
            !.feasting = IF @ > 0 THEN @ - 1 ELSE @]

phaseProduction(s) ==
  [s EXCEPT !.food = @ + foodPerDay(s),
            !.wood = @ + woodPerDay(s),
            !.tools = @ + toolsPerDay(s)]

phaseMaintenance(s) ==
  [s EXCEPT !.tools = clamp(@ - toolsDecayPerDay(s), 0, STOCK_MAX)]

\* [s |-> state after, deficit |-> the value returned]
phaseConsumption(s) ==
  LET cons == foodConsumptionPerDay(s)
      left == s.food - cons
  IN  IF left < 0 THEN [s |-> [s EXCEPT !.food = 0], deficit |-> -left]
      ELSE [s |-> [s EXCEPT !.food = left], deficit |-> 0]

\* [s |-> state after, deaths, moodLoss |-> the outcome returned]
\* the body of phaseStarvation for a positive deficit
\* the hungry branch of phaseStarvation killing at any deficit
starveAlwaysLethal(s, deficit) ==
       LET sd == s.starveDays + 1
           moodMult == SCALE + sd * STARVE_MOOD_MULT_PER_DAY
           baseMoodLoss == clamp(MulK(deficit, STARVATION_MOOD_LOSS_MULT),
                                 STARVATION_MOOD_LOSS_MIN, STARVATION_MOOD_LOSS_MAX)
           moodLoss == clamp(MulK(baseMoodLoss, moodMult),
                             STARVATION_MOOD_LOSS_MIN, STARVATION_MOOD_LOSS_MAX)
           unfed == (deficit + FOOD_CONSUMPTION_PER_POP - 1) \div FOOD_CONSUMPTION_PER_POP
           deathMult == SCALE + sd * STARVE_DEATH_MULT_PER_DAY
           maxDeaths == Max(1, FloorK(s.pop * STARVE_DEATH_MAX_PER_DAY_RATIO))
           deaths == clamp(FloorK(unfed * deathMult), 1, maxDeaths)
       IN  [s |-> [s EXCEPT !.starveDays = sd,
                            !.mood = clamp(@ - moodLoss, MOOD_MIN, MOOD_MAX),
                            !.pop = clamp(@ - deaths, 0, 999999)],
            deaths |-> deaths, moodLoss |-> moodLoss]

\* the hungry branch of phaseStarvation without the per-day cap on deaths
starveUncapped(s, deficit) ==
       LET sd == s.starveDays + 1
           moodMult == SCALE + sd * STARVE_MOOD_MULT_PER_DAY
           baseMoodLoss == clamp(MulK(deficit, STARVATION_MOOD_LOSS_MULT),
                                 STARVATION_MOOD_LOSS_MIN, STARVATION_MOOD_LOSS_MAX)
           moodLoss == clamp(MulK(baseMoodLoss, moodMult),
                             STARVATION_MOOD_LOSS_MIN, STARVATION_MOOD_LOSS_MAX)
           s1 == [s EXCEPT !.starveDays = sd,
                           !.mood = clamp(@ - moodLoss, MOOD_MIN, MOOD_MAX)]
           unfed == (deficit + FOOD_CONSUMPTION_PER_POP - 1) \div FOOD_CONSUMPTION_PER_POP
           deathMult == SCALE + sd * STARVE_DEATH_MULT_PER_DAY
           deaths == Max(1, FloorK(unfed * deathMult))
       IN  IF deficit > s.pop * STARVATION_DEATH_DEFICIT_RATIO
           THEN [s |-> [s1 EXCEPT !.pop = clamp(@ - deaths, 0, 999999)],
                 deaths |-> deaths, moodLoss |-> moodLoss]
           ELSE [s |-> s1, deaths |-> 0, moodLoss |-> moodLoss]

starve(s, deficit) ==
       LET sd == s.starveDays + 1
           moodMult == SCALE + sd * STARVE_MOOD_MULT_PER_DAY
           baseMoodLoss == clamp(MulK(deficit, STARVATION_MOOD_LOSS_MULT),
                                 STARVATION_MOOD_LOSS_MIN, STARVATION_MOOD_LOSS_MAX)
           moodLoss == clamp(MulK(baseMoodLoss, moodMult),
                             STARVATION_MOOD_LOSS_MIN, STARVATION_MOOD_LOSS_MAX)
           s1 == [s EXCEPT !.starveDays = sd,
                           !.mood = clamp(@ - moodLoss, MOOD_MIN, MOOD_MAX)]
           unfed == (deficit + FOOD_CONSUMPTION_PER_POP - 1) \div FOOD_CONSUMPTION_PER_POP
           deathMult == SCALE + sd * STARVE_DEATH_MULT_PER_DAY
           rawDeaths == FloorK(unfed * deathMult)
           maxDeaths == Max(1, FloorK(s.pop * STARVE_DEATH_MAX_PER_DAY_RATIO))
           deaths == clamp(rawDeaths, 1, maxDeaths)
       IN  IF deficit > s.pop * STARVATION_DEATH_DEFICIT_RATIO
           THEN [s |-> [s1 EXCEPT !.pop = clamp(@ - deaths, 0, 999999)],
                 deaths |-> deaths, moodLoss |-> moodLoss]
           ELSE [s |-> s1, deaths |-> 0, moodLoss |-> moodLoss]

\* phaseStarvation that keeps the streak on a fed day: C4 must tell it apart
phaseStarvationKeepsStreak(s, deficit) ==
  IF deficit <= 0 THEN [s |-> s, deaths |-> 0, moodLoss |-> 0]
  ELSE starve(s, deficit)

phaseStarvation(s, deficit) ==
  IF deficit <= 0 THEN [s |-> [s EXCEPT !.starveDays = 0], deaths |-> 0, moodLoss |-> 0]
  ELSE starve(s, deficit)

phasePressures(s, deficit, deaths) ==
  LET isHungry == deficit > 0
      wellFed == s.food > s.pop * MOOD_RECOVER_IF_WELL_FED_RATIO * SCALE
      subs == IF isHungry
              THEN clamp(s.pSubsistence + MulK(deficit, P_SUBS_FROM_DEFICIT_MULT)
                           + s.starveDays * P_SUBS_STREAK_MULT,
                         PRESSURE_MIN, PRESSURE_MAX)
              ELSE clamp(s.pSubsistence - MulK(P_DECAY_BASE, IF wellFed THEN 1150 ELSE 1000),
                         PRESSURE_MIN, PRESSURE_MAX)
      sec == IF s.mood < 50000
             THEN clamp(s.pSecurity + MulK(50000 - s.mood, P_SEC_FROM_LOW_MOOD_MULT),
                        PRESSURE_MIN, PRESSURE_MAX)
             ELSE clamp(s.pSecurity - P_DECAY_BASE, PRESSURE_MIN, PRESSURE_MAX)
      extr == clamp(s.pExtraction - MulK(P_DECAY_BASE, 500), PRESSURE_MIN, PRESSURE_MAX)
      shock == deaths * P_SHOCK_FROM_DEATHS
  IN  IF deaths > 0
      THEN [s EXCEPT !.pSubsistence = clamp(subs + MulK(shock, 600), PRESSURE_MIN, PRESSURE_MAX),
                     !.pSecurity = clamp(sec + MulK(shock, 400), PRESSURE_MIN, PRESSURE_MAX),
                     !.pExtraction = extr]
      ELSE [s EXCEPT !.pSubsistence = subs, !.pSecurity = sec, !.pExtraction = extr]

\* phase 8 recovering whatever the pressures are
phaseAuthorityMoodDriftIgnoresPressures(s) ==
  LET m1 == IF s.food > s.pop * MOOD_RECOVER_IF_WELL_FED_RATIO * SCALE /\ s.mood < MOOD_DRIFT_CAP
            THEN clamp(s.mood + MOOD_DRIFT_UP, MOOD_MIN, MOOD_MAX) ELSE s.mood
      m2 == IF m1 > MOOD_TOO_HIGH
            THEN clamp(m1 - MOOD_DRIFT_DOWN_IF_TOO_HIGH, MOOD_MIN, MOOD_MAX) ELSE m1
      pressureBleed == AUTH_BLEED_BASE + MulK(s.pSubsistence, AUTH_BLEED_PSUBS_MULT)
                         + MulK(s.pSecurity, AUTH_BLEED_PSEC_MULT)
                         + MulK(s.pExtraction, AUTH_BLEED_PEXTR_MULT)
      canRecover == m2 >= 45000 /\ s.authority < AUTH_RECOVER_CAP
  IN  [s EXCEPT !.mood = m2,
                !.authority = IF canRecover
                              THEN clamp(@ + AUTH_RECOVER_BASE, AUTH_MIN, AUTH_MAX)
                              ELSE clamp(@ - pressureBleed, AUTH_MIN, AUTH_MAX)]

phaseAuthorityMoodDrift(s) ==
  LET m1 == IF s.food > s.pop * MOOD_RECOVER_IF_WELL_FED_RATIO * SCALE /\ s.mood < MOOD_DRIFT_CAP
            THEN clamp(s.mood + MOOD_DRIFT_UP, MOOD_MIN, MOOD_MAX) ELSE s.mood
      m2 == IF m1 > MOOD_TOO_HIGH
            THEN clamp(m1 - MOOD_DRIFT_DOWN_IF_TOO_HIGH, MOOD_MIN, MOOD_MAX) ELSE m1
      pressureBleed == AUTH_BLEED_BASE + MulK(s.pSubsistence, AUTH_BLEED_PSUBS_MULT)
                         + MulK(s.pSecurity, AUTH_BLEED_PSEC_MULT)
                         + MulK(s.pExtraction, AUTH_BLEED_PEXTR_MULT)
      pressuresLow == (s.pSubsistence + s.pSecurity + s.pExtraction) < 45000
      canRecover == pressuresLow /\ m2 >= 45000 /\ s.authority < AUTH_RECOVER_CAP
  IN  [s EXCEPT !.mood = m2,
                !.authority = IF canRecover
                              THEN clamp(@ + AUTH_RECOVER_BASE, AUTH_MIN, AUTH_MAX)
                              ELSE clamp(@ - pressureBleed, AUTH_MIN, AUTH_MAX)]

\* phaseDepopulation sending people away from the first qualifying day
phaseDepopulationAtOnce(s) ==
  LET badSubs == s.pSubsistence >= MIGRATION_TRIGGER_PSUBS
      badSec == s.pSecurity >= MIGRATION_TRIGGER_PSEC
      lowMood == s.mood <= MIGRATION_TRIGGER_MOOD
      streak == IF badSubs /\ badSec /\ lowMood THEN s.depopStreak + 1 ELSE 0
      s1 == [s EXCEPT !.depopStreak = streak]
      cap == Max(MIGRATION_PER_DAY_MIN, FloorK(s.pop * MIGRATION_PER_DAY_MAX_RATIO))
      extra == FloorK(s.pop * (streak * MIGRATION_STREAK_MULT))
      leaving == clamp(MIGRATION_PER_DAY_MIN + extra, MIGRATION_PER_DAY_MIN, cap)
  IN  IF streak < 1 THEN [s |-> s1, leaving |-> 0]
      ELSE IF leaving > 0 /\ s.pop > 0
      THEN [s |-> [s1 EXCEPT !.pop = clamp(@ - leaving, 0, 999999),
                             !.mood = clamp(@ - 1500, MOOD_MIN, MOOD_MAX),
                             !.authority = clamp(@ - 1000, AUTH_MIN, AUTH_MAX)],
            leaving |-> leaving]
      ELSE [s |-> s1, leaving |-> 0]

\* [s |-> state after, leaving |-> people who left (0 when none)]
\* phaseDepopulation with people arriving where the code has them leave
phaseDepopulationArrivals(s) ==
  LET badSubs == s.pSubsistence >= MIGRATION_TRIGGER_PSUBS
      badSec == s.pSecurity >= MIGRATION_TRIGGER_PSEC
      lowMood == s.mood <= MIGRATION_TRIGGER_MOOD
      streak == IF badSubs /\ badSec /\ lowMood THEN s.depopStreak + 1 ELSE 0
      s1 == [s EXCEPT !.depopStreak = streak]
      cap == Max(MIGRATION_PER_DAY_MIN, FloorK(s.pop * MIGRATION_PER_DAY_MAX_RATIO))
      base == MIGRATION_PER_DAY_MIN
      extra == FloorK(s.pop * (streak * MIGRATION_STREAK_MULT))
      leaving == clamp(base + extra, MIGRATION_PER_DAY_MIN, cap)
  IN  IF streak < MIGRATION_STREAK_START THEN [s |-> s1, leaving |-> 0]
      ELSE IF leaving > 0 /\ s.pop > 0
      THEN [s |-> [s1 EXCEPT !.pop = clamp(@ + leaving, 0, 999999),
                             !.mood = clamp(@ - 1500, MOOD_MIN, MOOD_MAX),
                             !.authority = clamp(@ - 1000, AUTH_MIN, AUTH_MAX)],
            leaving |-> leaving]
      ELSE [s |-> s1, leaving |-> 0]

\* phaseDepopulation letting the whole streak-scaled term leave
phaseDepopulationUncapped(s) ==
  LET badSubs == s.pSubsistence >= MIGRATION_TRIGGER_PSUBS
      badSec == s.pSecurity >= MIGRATION_TRIGGER_PSEC
      lowMood == s.mood <= MIGRATION_TRIGGER_MOOD
      streak == IF badSubs /\ badSec /\ lowMood THEN s.depopStreak + 1 ELSE 0
      s1 == [s EXCEPT !.depopStreak = streak]
      cap == Max(MIGRATION_PER_DAY_MIN, FloorK(s.pop * MIGRATION_PER_DAY_MAX_RATIO))
      base == MIGRATION_PER_DAY_MIN
      extra == FloorK(s.pop * (streak * MIGRATION_STREAK_MULT))
      leaving == base + extra
  IN  IF streak < MIGRATION_STREAK_START THEN [s |-> s1, leaving |-> 0]
      ELSE IF leaving > 0 /\ s.pop > 0
      THEN [s |-> [s1 EXCEPT !.pop = clamp(@ - leaving, 0, 999999),
                             !.mood = clamp(@ - 1500, MOOD_MIN, MOOD_MAX),
                             !.authority = clamp(@ - 1000, AUTH_MIN, AUTH_MAX)],
            leaving |-> leaving]
      ELSE [s |-> s1, leaving |-> 0]

phaseDepopulation(s) ==
  LET badSubs == s.pSubsistence >= MIGRATION_TRIGGER_PSUBS
      badSec == s.pSecurity >= MIGRATION_TRIGGER_PSEC
      lowMood == s.mood <= MIGRATION_TRIGGER_MOOD
      streak == IF badSubs /\ badSec /\ lowMood THEN s.depopStreak + 1 ELSE 0
      s1 == [s EXCEPT !.depopStreak = streak]
      cap == Max(MIGRATION_PER_DAY_MIN, FloorK(s.pop * MIGRATION_PER_DAY_MAX_RATIO))
      base == MIGRATION_PER_DAY_MIN
      extra == FloorK(s.pop * (streak * MIGRATION_STREAK_MULT))
      leaving == clamp(base + extra, MIGRATION_PER_DAY_MIN, cap)
  IN  IF streak < MIGRATION_STREAK_START THEN [s |-> s1, leaving |-> 0]
      ELSE IF leaving > 0 /\ s.pop > 0
      THEN [s |-> [s1 EXCEPT !.pop = clamp(@ - leaving, 0, 999999),
                             !.mood = clamp(@ - 1500, MOOD_MIN, MOOD_MAX),
                             !.authority = clamp(@ - 1000, AUTH_MIN, AUTH_MAX)],
            leaving |-> leaving]
      ELSE [s |-> s1, leaving |-> 0]

phaseEvents(s) == maybeTriggerEvent(s)

\* endGame(reason, win), without its timer and rendering side
endGame(s, win) == [s EXCEPT !.gameOver = TRUE, !.win = win]

\* end checks without the victory line: C35 must tell it apart
phaseEndChecksNoVictory(s) ==
  IF s.pop <= 0 THEN [s |-> endGame(s, FALSE), ended |-> TRUE, reason |-> "Population collapsed."]
  ELSE IF s.pop <= MIGRATION_MIN_POP
  THEN [s |-> endGame(s, FALSE), ended |-> TRUE, reason |-> "The settlement was abandoned."]
  ELSE IF s.authority <= 0
  THEN [s |-> endGame(s, FALSE), ended |-> TRUE,
        reason |-> "Authority collapsed. You were removed from power."]
  ELSE [s |-> s, ended |-> FALSE, reason |-> ""]

\* end checks that look at authority before the population: C9 must tell it
\* apart
phaseEndChecksAuthorityFirst(s) ==
  IF s.authority <= 0
  THEN [s |-> endGame(s, FALSE), ended |-> TRUE,
        reason |-> "Authority collapsed. You were removed from power."]
  ELSE IF s.pop <= 0
  THEN [s |-> endGame(s, FALSE), ended |-> TRUE, reason |-> "Population collapsed."]
  ELSE IF s.pop <= MIGRATION_MIN_POP
  THEN [s |-> endGame(s, FALSE), ended |-> TRUE, reason |-> "The settlement was abandoned."]
  ELSE IF s.day >= WIN_DAY
  THEN [s |-> endGame(s, TRUE), ended |-> TRUE, reason |-> "You survived 50 days. MPL complete."]
  ELSE [s |-> s, ended |-> FALSE, reason |-> ""]

\* [s |-> state after, ended, reason |-> the line endGame logs ("" when none)]
phaseEndChecks(s) ==
  IF s.pop <= 0 THEN [s |-> endGame(s, FALSE), ended |-> TRUE, reason |-> "Population collapsed."]
  ELSE IF s.pop <= MIGRATION_MIN_POP
  THEN [s |-> endGame(s, FALSE), ended |-> TRUE, reason |-> "The settlement was abandoned."]
  ELSE IF s.authority <= 0
  THEN [s |-> endGame(s, FALSE), ended |-> TRUE,
        reason |-> "Authority collapsed. You were removed from power."]
  ELSE IF s.day >= WIN_DAY
  THEN [s |-> endGame(s, TRUE), ended |-> TRUE, reason |-> "You survived 50 days. MPL complete."]
  ELSE [s |-> s, ended |-> FALSE, reason |-> ""]

\* ------------------------------------------------------------------------
\* Tick (1 day)
\* ------------------------------------------------------------------------
\* What one call of tick() does to the state, with the values its phases pass
\* on: executed is FALSE when tick() returned at one of its two guards.
\* endGame() returns nothing, so `ended` in tick() is always undefined and the
\* day advances on the ending tick as well.
NoTick(s) ==
  [s |-> s, executed |-> FALSE, stocked |-> 0, demand |-> 0, deficit |-> 0, deaths |-> 0,
   leaving |-> 0, draws |-> 0, ended |-> FALSE, reason |-> ""]

\* phases 1-12 of tick(), after its guards
runPhases(s) ==
  Bind(phaseMaintenance(phaseProduction(phasePolicyTimers(phaseValidate(s)))), LAMBDA s4 :
  Bind(phaseConsumption(s4), LAMBDA c5 :
  Bind(phaseStarvation(c5.s, c5.deficit), LAMBDA o6 :
  Bind(phaseDepopulation(phaseAuthorityMoodDrift(
         phasePressures(o6.s, c5.deficit, o6.deaths))), LAMBDA d9 :
  Bind(phaseEvents(d9.s), LAMBDA e10 :
  Bind(phaseEndChecks(e10.s), LAMBDA end :
    [s |-> [end.s EXCEPT !.day = @ + 1],
     executed |-> TRUE,
     stocked |-> s4.food,
     demand |-> foodConsumptionPerDay(s4),
     deficit |-> c5.deficit,
     deaths |-> o6.deaths,
     leaving |-> d9.leaving,
     draws |-> e10.draws,
     ended |-> end.ended,
     reason |-> end.reason]))))))

\* tick() without its two guards: C10 must tell it apart
tickUnguarded(s) == runPhases(s)

tick(s) ==
  IF s.gameOver THEN NoTick(s)
  ELSE IF s.paused /\ s.mode = "auto" THEN NoTick(s)
  ELSE runPhases(s)

\* ------------------------------------------------------------------------
\* The machine: the settlement record, the interval scheduler, the log
\* ------------------------------------------------------------------------
VARIABLES
  state,       \* the settlement record `state`
  tickHandle,  \* the id setInterval returned, 0 for null
  timers,      \* ids of the intervals armed in the window
  endReason,   \* the line endGame wrote to the log, "" when none
  last,        \* the handler that ran last, with the values its tick passed on
  prev,        \* the settlement record as that handler found it
  inputs       \* player inputs made so far

vars == <<state, tickHandle, timers, endReason, last, prev, inputs>>

\* Bounds of the exploration
MaxInputs == 2
PlanDays == 3
SliderStep == 6

\* positions of a range input whose max is the population
SliderValues == {v \in 0..30 : v % SliderStep = 0}

\* stopAutoTick / startAutoTick / applyTimeControl as [handle, timers]
\* stopAutoTick forgetting the handle without clearInterval
stopAutoTickLeaks(h, t) == [handle |-> 0, timers |-> t]

stopAutoTick(h, t) ==
  IF h # 0 THEN [handle |-> 0, timers |-> t \ {h}] ELSE [handle |-> h, timers |-> t]

startAutoTick(h, t) ==
  LET c == stopAutoTick(h, t)
      id == CHOOSE n \in 1..(Cardinality(c.timers) + 1) : n \notin c.timers
  IN  [handle |-> id, timers |-> c.timers \cup {id}]

\* applyTimeControl arming in auto mode whatever paused holds
applyTimeControlIgnoresPause(s, h, t) ==
  LET c == stopAutoTick(h, t)
  IN  IF s.gameOver THEN c
      ELSE IF s.mode = "auto" THEN startAutoTick(c.handle, c.timers)
      ELSE c

\* applyTimeControl without its gameOver return
applyTimeControlIgnoresGameOver(s, h, t) ==
  LET c == stopAutoTick(h, t)
  IN  IF s.mode = "auto" /\ ~s.paused THEN startAutoTick(c.handle, c.timers)
      ELSE c

applyTimeControl(s, h, t) ==
  LET c == stopAutoTick(h, t)
  IN  IF s.gameOver THEN c
      ELSE IF s.mode = "auto" /\ ~s.paused THEN startAutoTick(c.handle, c.timers)
      ELSE c

\* What the handler that ran last did: called/executed tell whether it called
\* tick() and whether tick() passed its guards; the rest are the values the
\* phases of that tick passed on.
Handler(name, r) ==
  [op |-> name, called |-> TRUE, executed |-> r.executed, stocked |-> r.stocked,
   demand |-> r.demand, deficit |-> r.deficit, deaths |-> r.deaths, leaving |-> r.leaving,
   draws |-> r.draws]

Plain(name) ==
  [op |-> name, called |-> FALSE, executed |-> FALSE, stocked |-> 0, demand |-> 0,
   deficit |-> 0, deaths |-> 0, leaving |-> 0, draws |-> 0]

Init ==
  /\ state = INITIAL(DEFAULT_SEED)
  /\ LET c == applyTimeControl(INITIAL(DEFAULT_SEED), 0, {})
     IN  tickHandle = c.handle /\ timers = c.timers
  /\ endReason = ""
  /\ last = Plain("boot")
  /\ prev = INITIAL(DEFAULT_SEED)
  /\ inputs = 0

\* tick() and what follows it in the caller: endGame's applyTimeControl
RunTick(name) ==
  \E r \in {tick(state)} :
    \E c \in {IF r.ended THEN applyTimeControl(r.s, tickHandle, timers)
              ELSE [handle |-> tickHandle, timers |-> timers]} :
      /\ state' = r.s
      /\ tickHandle' = c.handle
      /\ timers' = c.timers
      /\ endReason' = IF r.ended THEN r.reason ELSE endReason
      /\ last' = Handler(name, r)
      /\ prev' = state

\* the interval fires
TimerTick ==
  /\ timers # {}
  /\ RunTick("timer")
  /\ UNCHANGED inputs

CanInput == inputs < MaxInputs
\* settlement inputs come in the first days of a run and after its end
CanPlan == CanInput /\ (state.day <= PlanDays \/ state.gameOver)
\* an option of a pending event may still be clicked after the last other input
CanClick == CanInput \/ (inputs = MaxInputs /\ state.activeEvent # "null")

\* a time-control handler: the record changes and applyTimeControl runs
Control(name, s) ==
  \E c \in {applyTimeControl(s, tickHandle, timers)} :
    /\ state' = s
    /\ tickHandle' = c.handle
    /\ timers' = c.timers
    /\ last' = Plain(name)
    /\ prev' = state
    /\ UNCHANGED endReason

\* a handler that returned at its guard
Idle(name) ==
  /\ last' = Plain(name)
  /\ prev' = state
  /\ UNCHANGED <<state, tickHandle, timers, endReason>>

\* click on #endDay
EndDay ==
  /\ CanInput
  /\ inputs' = inputs + 1
  /\ IF state.gameOver
     THEN Idle("endDay")
     ELSE RunTick("endDay")

\* a settlement-only handler: the record changes, scheduler and log do not
Settle(name, s) ==
  /\ state' = s
  /\ last' = Plain(name)
  /\ prev' = state
  /\ inputs' = inputs + 1
  /\ UNCHANGED <<tickHandle, timers, endReason>>

\* click on button[data-action]
ActionButton ==
  /\ CanPlan
  /\ \E key \in {"buildFarm", "ration", "feast"} :
       Settle(key, IF state.gameOver THEN state
                   ELSE CASE key = "buildFarm" -> buildFarm(state)
                          [] key = "ration" -> ration(state)
                          [] key = "feast" -> feast(state))

\* click on button[data-preset]
PresetButton ==
  /\ CanPlan
  /\ \E name \in PresetNames :
       Settle(name, IF state.gameOver THEN state ELSE applyPreset(state, name))

\* input on one of the three workforce sliders
Slider ==
  /\ CanPlan
  /\ \E k \in {WorkKeys[i] : i \in 1..3}, v \in {x \in SliderValues : x <= state.pop} :
       Settle(k, validateWorkforce([state EXCEPT ![k] = v], k))

\* the event box without its gameOver return
EventClickAfterEnd ==
  /\ CanClick
  /\ \E idx \in 0..1 : Settle("resolveEvent", resolveEvent(state, idx))

\* click on [data-ev] in the event box
EventClick ==
  /\ CanClick
  /\ \E idx \in 0..1 :
       Settle("resolveEvent", IF state.gameOver THEN state ELSE resolveEvent(state, idx))

\* click on #toggleTick
ToggleTick ==
  /\ CanInput
  /\ inputs' = inputs + 1
  /\ IF state.gameOver THEN Idle("toggleTick")
     ELSE IF state.mode = "manual"
     THEN Control("toggleTick", [state EXCEPT !.mode = "auto", !.paused = FALSE])
     ELSE Control("toggleTick", [state EXCEPT !.paused = ~@])

\* the values a [data-speed] button may carry; 0 stands for an attribute that
\* is not a positive finite number
SpeedValues == {0, 2500, 5000}

\* click on a [data-speed] button
SpeedButton ==
  /\ CanInput
  /\ inputs' = inputs + 1
  /\ \E ms \in SpeedValues :
       IF state.gameOver \/ ms <= 0 THEN Idle("speed")
       ELSE Control("speed", IF state.mode # "auto"
                             THEN [state EXCEPT !.tickSpeedMs = ms, !.mode = "auto",
                                                !.paused = FALSE]
                             ELSE [state EXCEPT !.tickSpeedMs = ms])

\* the mode hotkey leaving paused as it found it
ModeHotkeyKeepsPause ==
  /\ CanInput
  /\ inputs' = inputs + 1
  /\ IF state.gameOver THEN Idle("modeHotkey")
     ELSE Control("modeHotkey",
                  [state EXCEPT !.mode = IF @ = "auto" THEN "manual" ELSE "auto"])

\* keydown "m"
ModeHotkey ==
  /\ CanInput
  /\ inputs' = inputs + 1
  /\ IF state.gameOver THEN Idle("modeHotkey")
     ELSE Control("modeHotkey",
                  [state EXCEPT !.mode = IF @ = "auto" THEN "manual" ELSE "auto",
                                !.paused = FALSE])

\* click on #reset: stopAutoTick, a fresh record from the current seed, the log
\* cleared, applyTimeControl
Reset ==
  /\ CanInput
  /\ \E c0 \in {stopAutoTick(tickHandle, timers)} :
       \E s \in {INITIAL(state.seed)} :
         \E c \in {applyTimeControl(s, c0.handle, c0.timers)} :
           /\ state' = s
           /\ tickHandle' = c.handle
           /\ timers' = c.timers
           /\ endReason' = ""
           /\ last' = Plain("reset")
           /\ prev' = state
           /\ inputs' = inputs + 1

Next ==
  \/ TimerTick
  \/ EndDay
  \/ ActionButton
  \/ PresetButton
  \/ Slider
  \/ EventClick
  \/ ToggleTick
  \/ SpeedButton
  \/ ModeHotkey
  \/ Reset

Spec == Init /\ [][Next]_vars

\* tick() called at an arbitrary moment, whatever the scheduler holds
TickCall == RunTick("tick") /\ UNCHANGED inputs

NextTick == Next \/ TickCall

SpecTick == Init /\ [][NextTick]_vars

\* ------------------------------------------------------------------------
\* A whole run played with few choices: up to LongResets resets before the
\* first day, the food slider on the days of LongDays, every event answered
\* on the day it appears or left pending, and the interval ticking to the end
\* ------------------------------------------------------------------------
LongResets == 2
LongDays == {3, 14}

\* click on #reset before anything else happened in the run
LongReset ==
  /\ inputs < LongResets
  /\ state.day = 1
  /\ last.op \in {"boot", "reset"}
  /\ \E c0 \in {stopAutoTick(tickHandle, timers)} :
       \E s \in {INITIAL(state.seed)} :
         \E c \in {applyTimeControl(s, c0.handle, c0.timers)} :
           /\ state' = s
           /\ tickHandle' = c.handle
           /\ timers' = c.timers
           /\ endReason' = ""
           /\ last' = Plain("reset")
           /\ prev' = state
           /\ inputs' = inputs + 1

\* input on the food slider, once on a day of LongDays
LongSlider ==
  /\ state.day \in LongDays
  /\ ~state.gameOver
  /\ last.op # "workersFood"
  /\ \E v \in {x \in SliderValues : x <= state.pop} :
       Settle("workersFood", validateWorkforce([state EXCEPT !.workersFood = v], "workersFood"))

\* click on an option of the event the last tick brought
LongClick ==
  /\ last.called
  /\ ~state.gameOver
  /\ state.activeEvent # "null"
  /\ prev.activeEvent = "null"
  /\ \E idx \in 0..1 : Settle("resolveEvent", resolveEvent(state, idx))

NextLong == TimerTick \/ LongReset \/ LongSlider \/ LongClick

SpecLong == Init /\ [][NextLong]_vars

\* the same runs with the interval firing as long as it is armed: setInterval
\* keeps calling tick() until stopAutoTick clears it
\* (weak fairness of TimerTick, written out: the action is enabled exactly
\* when an interval is armed)
SpecLongFair == SpecLong /\ ([]<>(timers = {}) \/ []<><<TimerTick>>_vars)

\* ------------------------------------------------------------------------
\* validateWorkforce on its own: every population up to WFMaxPop with every
\* triple of slot values from one below zero to one above the population cap
\* ------------------------------------------------------------------------
WFMaxPop == 4

WFValues == (0 - 1)..(WFMaxPop + 1)

WFKeys == {WorkKeys[i] : i \in 1..3}

InitWF ==
  /\ state \in {[INITIAL(DEFAULT_SEED) EXCEPT !.pop = p, !.workersFood = a,
                                              !.workersWood = b, !.workersTools = c] :
                  p \in 0..WFMaxPop, a \in WFValues, b \in WFValues, c \in WFValues}
  /\ prev = state
  /\ tickHandle = 0
  /\ timers = {}
  /\ endReason = ""
  /\ last = Plain("boot")
  /\ inputs = 0

\* validateWorkforce(priorityKey) as a slider handler or phase 1 calls it
WFCall(name, s, key) ==
  /\ state' = validateWorkforce(s, key)
  /\ prev' = s
  /\ last' = Plain(name)
  /\ UNCHANGED <<tickHandle, timers, endReason, inputs>>

\* a slot is set and reconciled with that slot as priority
WFSlider == \E k \in WFKeys, v \in WFValues : WFCall(k, [state EXCEPT ![k] = v], k)

\* reconciliation without a priority slot
WFPhase == WFCall("phaseValidate", state, "null")

NextWF == WFSlider \/ WFPhase

SpecWF == InitWF /\ [][NextWF]_vars

\* ------------------------------------------------------------------------
\* applyPreset on its own: every population up to PresetMaxPop, every preset
\* name and a name CONFIG.PRESETS does not hold
\* ------------------------------------------------------------------------
PresetMaxPop == 30

PresetInputs == PresetNames \cup {"unknown"}

\* the labor the settlement had is reconciled with the population, as phase 1
\* of the last tick left it
InitPreset ==
  /\ state \in {validateWorkforce([INITIAL(DEFAULT_SEED) EXCEPT !.pop = p], "null") :
                  p \in 0..PresetMaxPop}
  /\ prev = state
  /\ tickHandle = 0
  /\ timers = {}
  /\ endReason = ""
  /\ last = Plain("boot")
  /\ inputs = 0

PresetCall ==
  \E name \in PresetInputs :
    /\ state' = applyPreset(state, name)
    /\ prev' = state
    /\ last' = Plain(name)
    /\ UNCHANGED <<tickHandle, timers, endReason, inputs>>

NextPreset == PresetCall

SpecPreset == InitPreset /\ [][NextPreset]_vars

\* ------------------------------------------------------------------------
\* The famine-cutoff variant (src/unnamed/part_000): one stability meter,
\* Math.random for the events, and a hard fail after STARVE_DAYS_GAMEOVER
\* consecutive hungry days. Its CONFIG production and consumption numbers,
\* its core math, validateWorkforce, applyPreset and the timer control read
\* as in game.js, so the operators above stand for them; what differs is
\* below. Math.random is a free choice of the outcomes it can give.
\* ------------------------------------------------------------------------
STAB_MAX == 100000
STAB_MIN == 0
STARVATION_STAB_LOSS_MULT == 150
STARVATION_STAB_LOSS_MIN == 2000
STARVATION_STAB_LOSS_MAX == 18000
STARVE_DAYS_GAMEOVER == 15
STARVE_STAB_MULT_PER_DAY == 80
STAB_DRIFT_UP_IF_WELL_FED_RATIO == 3000
STAB_DRIFT_UP == 600
STAB_DRIFT_CAP == 85000
STAB_DRIFT_DOWN_IF_TOO_HIGH == 200
STAB_TOO_HIGH == 90000
LOW_STABILITY_THRESHOLD == 35000
STARVATION_RISK_FOOD_RATIO == 2000

part000_INITIAL ==
  [day |-> 1, mode |-> "auto", paused |-> FALSE, gameOver |-> FALSE,
   pop |-> 30, food |-> 80 * SCALE, wood |-> 40 * SCALE, tools |-> 10 * SCALE,
   stability |-> 70 * SCALE,
   workersFood |-> 10, workersWood |-> 5, workersTools |-> 0,
   farms |-> 0, rationing |-> 0, feasting |-> 0, starveDays |-> 0,
   activeEvent |-> "null", tickSpeedMs |-> DEFAULT_SPEED_MS]

part000_stab(s, d) == [s EXCEPT !.stability = clamp(@ + d, STAB_MIN, STAB_MAX)]

part000_EventKeys == {"TRADERS", "THEFT", "RIOT"}

\* opt.can() of option i of the pending event
part000_optionCan(s, key, i) ==
  CASE key = "TRADERS" /\ i = 0 -> s.wood >= 20 * SCALE
    [] key = "RIOT" /\ i = 0 -> s.food >= 25 * SCALE
    [] OTHER -> TRUE

\* the losses rndInt(5, 18) can give
riotLosses == 5..18

\* opt.apply() of option i: the set of records it can leave
part000_optionApply(s, key, i) ==
  CASE key = "TRADERS" /\ i = 0 ->
         {part000_stab([s EXCEPT !.wood = @ - 20 * SCALE, !.food = @ + 35 * SCALE],
                       2 * SCALE)}
    [] key = "TRADERS" /\ i = 1 -> {part000_stab(s, 0 - SCALE)}
    [] key = "THEFT" /\ i = 0 ->
         {part000_stab(s, 6 * SCALE),
          [part000_stab(s, 6 * SCALE) EXCEPT !.pop = clamp(@ - 1, 0, 999999)]}
    [] key = "THEFT" /\ i = 1 ->
         {[part000_stab(s, 0 - 6 * SCALE) EXCEPT !.food = clamp(@ - 6 * SCALE, 0, STOCK_MAX)]}
    [] key = "RIOT" /\ i = 0 ->
         {part000_stab([s EXCEPT !.food = @ - 25 * SCALE], 15 * SCALE)}
    [] key = "RIOT" /\ i = 1 ->
         {part000_stab(s, 8 * SCALE)} \cup
         {part000_stab([part000_stab(s, 8 * SCALE) EXCEPT
                          !.wood = clamp(@ - loss * SCALE, 0, STOCK_MAX)], 0 - 10 * SCALE) :
            loss \in riotLosses}
    [] OTHER -> {s}

\* the events maybeTriggerEvent may pick when the roll passes
part000_eventPool(s) ==
  {"TRADERS"}
    \cup (IF s.food < MulK(s.pop * SCALE, STARVATION_RISK_FOOD_RATIO) THEN {"THEFT"} ELSE {})
    \cup (IF s.stability < LOW_STABILITY_THRESHOLD THEN {"RIOT"} ELSE {})

\* the records maybeTriggerEvent can leave: the chance lies strictly between
\* 0 and 1, so the roll can pass or fail
part000_maybeTriggerEvent(s) ==
  IF s.activeEvent # "null" \/ s.gameOver THEN {s}
  ELSE {s} \cup {[s EXCEPT !.activeEvent = key] : key \in part000_eventPool(s)}

part000_resolveEvent(s, optionIndex) ==
  IF s.activeEvent = "null" THEN {s}
  ELSE IF optionIndex \notin 0..1 \/ ~part000_optionCan(s, s.activeEvent, optionIndex)
  THEN {s}
  ELSE {[r EXCEPT !.activeEvent = "null"] :
          r \in part000_optionApply(s, s.activeEvent, optionIndex)}

part000_buildFarm(s) ==
  IF s.wood < FARM_WOOD_COST THEN s
  ELSE part000_stab([s EXCEPT !.wood = @ - FARM_WOOD_COST, !.farms = @ + 1], 2 * SCALE)

part000_ration(s) ==
  part000_stab([s EXCEPT !.rationing = RATION_DAYS, !.feasting = 0], 0 - 6 * SCALE)

part000_feast(s) ==
  IF s.food < 20 * SCALE THEN s
  ELSE part000_stab([s EXCEPT !.feasting = FEAST_DAYS, !.rationing = 0,
                              !.food = @ - 10 * SCALE], 8 * SCALE)

part000_endGame(s) == [s EXCEPT !.gameOver = TRUE]

\* the starvation block of tick() for a positive deficit, up to the cutoff
part000_starve(s, deficit) ==
  LET stabMult == SCALE + s.starveDays * STARVE_STAB_MULT_PER_DAY
      deathMult == SCALE + s.starveDays * STARVE_DEATH_MULT_PER_DAY
      baseStabLoss == clamp(MulK(deficit, STARVATION_STAB_LOSS_MULT),
                            STARVATION_STAB_LOSS_MIN, STARVATION_STAB_LOSS_MAX)
      stabLoss == clamp(MulK(baseStabLoss, stabMult),
                        STARVATION_STAB_LOSS_MIN, STARVATION_STAB_LOSS_MAX)
      unfed == (deficit + FOOD_CONSUMPTION_PER_POP - 1) \div FOOD_CONSUMPTION_PER_POP
      rawDeaths == FloorK(unfed * deathMult)
      maxDeaths == Max(1, FloorK(s.pop * STARVE_DEATH_MAX_PER_DAY_RATIO))
      deaths == clamp(rawDeaths, 1, maxDeaths)
      s1 == part000_stab(s, 0 - stabLoss)
  IN  IF deficit > s.pop * STARVATION_DEATH_DEFICIT_RATIO
      THEN [s |-> [s1 EXCEPT !.pop = clamp(@ - deaths, 0, 999999)], deaths |-> deaths]
      ELSE [s |-> s1, deaths |-> 0]

part000_drift(s) ==
  LET s1 == IF s.food > MulK(s.pop * SCALE, STAB_DRIFT_UP_IF_WELL_FED_RATIO)
               /\ s.stability < STAB_DRIFT_CAP
            THEN part000_stab(s, STAB_DRIFT_UP) ELSE s
  IN  IF s1.stability > STAB_TOO_HIGH
      THEN part000_stab(s1, 0 - STAB_DRIFT_DOWN_IF_TOO_HIGH) ELSE s1

\* the end of tick() from the lose conditions on, for a record s that
\* maybeTriggerEvent left
part000_finish(s, c5, deaths) ==
  LET out(r, ended, reason) ==
        [s |-> r, executed |-> TRUE, ended |-> ended, reason |-> reason, stocked |-> 0,
         demand |-> c5.demand, deficit |-> c5.deficit, deaths |-> deaths, leaving |-> 0,
         draws |-> 0]
  IN  IF s.pop <= 0 THEN out(part000_endGame(s), TRUE, "Population collapsed.")
      ELSE IF s.stability <= 0 THEN out(part000_endGame(s), TRUE, "Authority collapsed.")
      ELSE IF s.day >= WIN_DAY
      THEN out(part000_endGame(s), TRUE, "You survived 50 days. MPL complete.")
      ELSE out([s EXCEPT !.day = @ + 1], FALSE, "")

\* tick() of the variant that goes on after the fifteenth hungry day
part000_tickNoCutoff(s) ==
  IF s.gameOver \/ (s.paused /\ s.mode = "auto")
  THEN {NoTick(s)}
  ELSE LET s4 == phaseMaintenance(phaseProduction(phasePolicyTimers(phaseValidate(s))))
           c5 == [phaseConsumption(s4) EXCEPT !.s = @] @@ [demand |-> foodConsumptionPerDay(s4)]
           s6 == [c5.s EXCEPT !.starveDays = IF c5.deficit > 0 THEN @ + 1 ELSE 0]
           o  == IF c5.deficit > 0 THEN part000_starve(s6, c5.deficit)
                 ELSE [s |-> s6, deaths |-> 0]
       IN  {part000_finish(r, c5, o.deaths) : r \in part000_maybeTriggerEvent(part000_drift(o.s))}

\* the outcomes of one call of tick(): `return endGame(...)` leaves tick()
\* whatever endGame returns, so an ending tick does not advance the day
part000_tick(s) ==
  IF s.gameOver \/ (s.paused /\ s.mode = "auto")
  THEN {NoTick(s)}
  ELSE LET s4 == phaseMaintenance(phaseProduction(phasePolicyTimers(phaseValidate(s))))
           c5 == [phaseConsumption(s4) EXCEPT !.s = @] @@ [demand |-> foodConsumptionPerDay(s4)]
           s6 == [c5.s EXCEPT !.starveDays = IF c5.deficit > 0 THEN @ + 1 ELSE 0]
           o  == IF c5.deficit > 0 THEN part000_starve(s6, c5.deficit)
                 ELSE [s |-> s6, deaths |-> 0]
       IN  IF c5.deficit > 0 /\ o.s.starveDays >= STARVE_DAYS_GAMEOVER
           THEN {[s |-> part000_endGame(o.s), executed |-> TRUE, ended |-> TRUE,
                  reason |-> "Famine collapse: 15 consecutive hungry days.", stocked |-> 0, demand |-> c5.demand,
                  deficit |-> c5.deficit, deaths |-> o.deaths, leaving |-> 0, draws |-> 0]}
           ELSE {part000_finish(r, c5, o.deaths) :
                   r \in part000_maybeTriggerEvent(part000_drift(o.s))}

\* Bounds: inputs come in the first FamineInputDays days of a run
FamineInputDays == 4

part000_Init ==
  /\ state = part000_INITIAL
  /\ LET c == applyTimeControl(part000_INITIAL, 0, {})
     IN  tickHandle = c.handle /\ timers = c.timers
  /\ endReason = ""
  /\ last = Plain("boot")
  /\ prev = part000_INITIAL
  /\ inputs = 0

\* the interval fires: tick(), and endGame's applyTimeControl on an ending one
part000_TimerTick ==
  /\ timers # {}
  /\ \E r \in part000_tick(state) :
       \E c \in {IF r.ended THEN applyTimeControl(r.s, tickHandle, timers)
                 ELSE [handle |-> tickHandle, timers |-> timers]} :
         /\ state' = r.s
         /\ tickHandle' = c.handle
         /\ timers' = c.timers
         /\ endReason' = IF r.ended THEN r.reason ELSE endReason
         /\ last' = Handler("timer", r)
         /\ prev' = state
  /\ UNCHANGED inputs

part000_CanInput == inputs < MaxInputs /\ state.day <= FamineInputDays

part000_ActionButton ==
  /\ part000_CanInput
  /\ \E key \in {"buildFarm", "ration", "feast"} :
       Settle(key, IF state.gameOver THEN state
                   ELSE CASE key = "buildFarm" -> part000_buildFarm(state)
                          [] key = "ration" -> part000_ration(state)
                          [] key = "feast" -> part000_feast(state))

part000_PresetButton ==
  /\ part000_CanInput
  /\ \E name \in PresetNames :
       Settle(name, IF state.gameOver THEN state ELSE applyPreset(state, name))

part000_Slider ==
  /\ part000_CanInput
  /\ \E k \in {WorkKeys[i] : i \in 1..3}, v \in {x \in SliderValues : x <= state.pop} :
       Settle(k, validateWorkforce([state EXCEPT ![k] = v], k))

\* click on a [data-ev] button of the event box
part000_EventClick ==
  /\ inputs < MaxInputs
  /\ state.activeEvent # "null"
  /\ prev.activeEvent = "null"
  /\ \E idx \in 0..1 : \E r \in part000_resolveEvent(state, idx) : Settle("resolveEvent", r)

part000_Reset ==
  /\ part000_CanInput
  /\ \E c0 \in {stopAutoTick(tickHandle, timers)} :
       \E c \in {applyTimeControl(part000_INITIAL, c0.handle, c0.timers)} :
         /\ state' = part000_INITIAL
         /\ tickHandle' = c.handle
         /\ timers' = c.timers
         /\ endReason' = ""
         /\ last' = Plain("reset")
         /\ prev' = state
         /\ inputs' = inputs + 1

NextFamine ==
  \/ part000_TimerTick
  \/ part000_ActionButton
  \/ part000_PresetButton
  \/ part000_Slider
  \/ part000_EventClick
  \/ part000_Reset

SpecFamine == part000_Init /\ [][NextFamine]_vars

\* ------------------------------------------------------------------------
\* Properties
\* ------------------------------------------------------------------------
\* the state is the one a completed tick() left
Ticked == last.called /\ last.executed

laborSum(s) == s.workersFood + s.workersWood + s.workersTools

\* C1: after every completed tick() the three labor slots sum to at most the
\* population: no phase after phase 1 breaks the bound phase 1 established.
C1_LaborWithinPopAfterTick == Ticked => laborSum(state) <= state.pop

Meters == {"mood", "authority", "pSubsistence", "pSecurity", "pExtraction"}

\* C2: in every reachable state mood, authority and the three pressures each
\* lie in [0, 100].
C2_MetersInRange == \A m \in Meters : state[m] >= 0 /\ state[m] <= 100 * SCALE

\* an event option was resolved and moved a meter onto one of its bounds
C2_Witness_Resolved ==
  /\ last.op = "resolveEvent"
  /\ \E m \in Meters : state[m] # prev[m] /\ state[m] \in {0, 100 * SCALE}

\* C3: food, wood and tools are >= 0 in every reachable state, after ticks,
\* player actions and event-option resolutions alike.
C3_StocksNonNegative == state.food >= 0 /\ state.wood >= 0 /\ state.tools >= 0

\* C4: for every executed tick, starveDays is 0 afterwards when the food after
\* production and maintenance covered the day's demand, and otherwise its value
\* before the tick plus exactly 1.
C4_StarveDaysStep ==
  Ticked =>
    IF last.stocked >= last.demand THEN state.starveDays = 0
    ELSE state.starveDays = prev.starveDays + 1

\* a fed day that reset a running streak, seen right after it
C4_Witness_StreakReset ==
  Ticked /\ last.stocked >= last.demand /\ prev.starveDays >= 2 /\ state.starveDays = 0

\* C8: in every reachable state both policy timers are non-negative and at
\* most one of them is running, under any interleaving of ration, feast and
\* tick.
C8_PolicyTimersExclusive ==
  /\ state.rationing >= 0
  /\ state.feasting >= 0
  /\ ~(state.rationing > 0 /\ state.feasting > 0)

\* feast was declared while rationing was running, and cleared it
C8_Witness_FeastClearsRationing ==
  /\ last.op = "feast"
  /\ prev.rationing > 0
  /\ state.feasting > 0
  /\ state.rationing = 0

\* the line phaseEndChecks' priority order gives for the values it inspected
endLine(pop, authority, day) ==
  IF pop <= 0 THEN "Population collapsed."
  ELSE IF pop <= 6 THEN "The settlement was abandoned."
  ELSE IF authority <= 0 THEN "Authority collapsed. You were removed from power."
  ELSE IF day >= WIN_DAY THEN "You survived 50 days. MPL complete."
  ELSE ""

C10_TickGuards ==
  last.called =>
    /\ (prev.gameOver \/ (prev.paused /\ prev.mode = "auto")) =>
         (~last.executed /\ state = prev)
    /\ (~prev.gameOver /\ prev.mode = "manual") => last.executed

\* tick() was called on a finished run
C10_Witness_CalledWhenOver == last.called /\ prev.gameOver /\ state = prev

labor(s) == <<s.workersFood, s.workersWood, s.workersTools>>

\* slot k of s after the clamp to [0, pop] alone, and the sum of the three
clamped(s, k) == Max(0, Min(s.pop, s[k]))
clampedSum(s) ==
  clamped(s, "workersFood") + clamped(s, "workersWood") + clamped(s, "workersTools")

\* C6: validateWorkforce is idempotent: for every population, every triple of
\* slot values and every priority slot (or none), a second call right after
\* the first leaves the three slots as the first call left them.
C6_ValidateIdempotent ==
  \A k \in WFKeys \cup {"null"} :
    labor(validateWorkforce(validateWorkforce(state, k), k)) = labor(validateWorkforce(state, k))

\* a call that had an overflow to remove, and removed it
C6_Witness_Reconciled ==
  /\ last.op \in WFKeys \cup {"phaseValidate"}
  /\ clampedSum(prev) > prev.pop
  /\ prev.pop > 0
  /\ labor(state) # labor(prev)
  /\ laborSum(state) = state.pop

\* C7: when validateWorkforce(priorityKey) finds the clamped slots summing to
\* more than pop, the overflow comes out of the other two slots first: the
\* priority slot falls below its clamped value only if both others end at 0.
C7_PrioritySlotReducedLast ==
  \A k \in WFKeys :
    (last.op = k /\ clampedSum(prev) > prev.pop) =>
      /\ laborSum(state) = state.pop
      /\ state[k] < clamped(prev, k) => \A o \in WFKeys \ {k} : state[o] = 0
      /\ \A o \in WFKeys \ {k} : state[o] <= clamped(prev, o)

\* an overflow taken from both other slots while the priority slot kept its value
C7_Witness_OthersReduced ==
  /\ last.op = "workersWood"
  /\ clampedSum(prev) > prev.pop
  /\ state.workersWood = clamped(prev, "workersWood")
  /\ state.workersWood > 0
  /\ state.workersFood < clamped(prev, "workersFood")
  /\ state.workersTools < clamped(prev, "workersTools")

AuthorityLine == "Authority collapsed. You were removed from power."

\* C11: a tick whose end check finds authority at 0, with the population above
\* the abandonment floor, ends the run on that tick as legitimacy collapse
\* (gameOver set, win not set) and does not advance the day.
C11_AuthorityEndKeepsDay ==
  (Ticked /\ state.authority <= 0 /\ state.pop > MIGRATION_MIN_POP) =>
    /\ state.gameOver
    /\ ~state.win
    /\ endReason = AuthorityLine
    /\ state.day = prev.day

VictoryLine == "You survived 50 days. MPL complete."

\* C12: a tick of a running game that reaches the end check on day >= WIN_DAY
\* with no loss condition holding ends the run as victory (gameOver and win
\* set); once the run is won no interval is armed, and every later tick,
\* fired or requested with #endDay, leaves the state unchanged.
C12_VictoryHalts ==
  /\ (Ticked /\ prev.day >= WIN_DAY /\ state.pop > MIGRATION_MIN_POP /\ state.authority > 0) =>
       (state.gameOver /\ state.win /\ endReason = VictoryLine)
  /\ state.win => (state.gameOver /\ timers = {} /\ tickHandle = 0)
  /\ ((last.called \/ last.op = "endDay") /\ prev.win) =>
       (~last.executed /\ state = prev)

\* tick() was called on a run that had been won
C12_Witness_TickAfterVictory == last.called /\ prev.win /\ state.win /\ timers = {}

\* C13: while an event is pending no tick replaces it and nothing but
\* resolveEvent or reset clears it: after any other handler the same event is
\* still pending, and resolveEvent either leaves it or clears it.
C13_PendingEventPersists ==
  prev.activeEvent # "null" =>
    /\ last.op \notin {"resolveEvent", "reset"} => state.activeEvent = prev.activeEvent
    /\ last.op = "resolveEvent" => state.activeEvent \in {prev.activeEvent, "null"}

\* a tick ran with an event pending and left it pending
C13_Witness_TickWhilePending ==
  Ticked /\ ~state.gameOver /\ prev.activeEvent # "null" /\ state.activeEvent = prev.activeEvent

\* the cases in which resolveEvent(i) must refuse
refused(s, i) ==
  \/ s.activeEvent = "null"
  \/ i \notin {0, 1}
  \/ s.activeEvent = "TRADERS" /\ i = 0 /\ s.wood < 20 * SCALE
  \/ s.activeEvent = "RIOT" /\ i = 0 /\ s.food < 25 * SCALE

\* C14: resolveEvent(i) leaves the whole record unchanged (the event still
\* pending) when no event is pending, when i is not an option index, or when
\* option i's guard fails (TRADERS trade with wood < 20, RIOT calm with
\* food < 25); otherwise the option's effect is applied and activeEvent
\* becomes null.
C14_ResolveEventGuards ==
  /\ \A i \in (0 - 1)..2 :
       \E r \in {resolveEvent(state, i)} :
         IF refused(state, i) THEN r = state
         ELSE /\ r.activeEvent = "null"
              /\ r = [optionRun(state, state.activeEvent, i) EXCEPT !.activeEvent = "null"]
              /\ (state.activeEvent = "TRADERS" /\ i = 0) =>
                   (r.wood = state.wood - 20 * SCALE /\ r.food = state.food + 35 * SCALE)
              /\ (state.activeEvent = "RIOT" /\ i = 0) => r.food = state.food - 25 * SCALE
  /\ last.op = "resolveEvent" =>
       \/ state = prev
       \/ prev.activeEvent # "null" /\ state.activeEvent = "null"

\* the food option of a riot was clicked without the food and nothing changed
C14_Witness_GuardFailed ==
  /\ last.op = "resolveEvent"
  /\ prev.activeEvent = "RIOT"
  /\ prev.food < 25 * SCALE
  /\ ~prev.gameOver
  /\ state = prev

\* C15: a player action whose precondition fails changes nothing: buildFarm
\* with wood < FARM_WOOD_COST leaves wood, farms and every meter as they
\* were, feast with food < 20 leaves food, both policy timers and every meter
\* as they were (the whole record is unchanged in both cases).
C15_FailedActionsNoOp ==
  /\ state.wood < FARM_WOOD_COST => buildFarm(state) = state
  /\ state.food < 20 * SCALE => feast(state) = state
  /\ (last.op = "buildFarm" /\ prev.wood < FARM_WOOD_COST) => state = prev
  /\ (last.op = "feast" /\ prev.food < 20 * SCALE) => state = prev

\* the farm button was clicked in a running game with too little wood
C15_Witness_FarmRefused ==
  /\ last.op = "buildFarm"
  /\ ~prev.gameOver
  /\ prev.wood < FARM_WOOD_COST
  /\ state = prev

\* C16: once the run has ended no handler but reset changes the settlement
\* record: action buttons, presets, event-option clicks, time controls, ticks
\* and the labor sliders all leave it as it was.
C16_NothingAfterGameOver ==
  (prev.gameOver /\ last.op # "reset") => state = prev

\* C17: at most one interval timer is armed at any time, and it is the one
\* tickHandle names: boot, pause/resume, speed changes, the mode hotkey,
\* reset and the end of the run cancel the previous interval before a new
\* one is armed.
C17_OneIntervalAtMost ==
  /\ Cardinality(timers) <= 1
  /\ timers = IF tickHandle = 0 THEN {} ELSE {tickHandle}

\* a speed button re-armed the interval of a running auto game
C17_Witness_Rearmed ==
  /\ last.op = "speed"
  /\ prev.mode = "auto" /\ ~prev.paused
  /\ state.tickSpeedMs # prev.tickSpeedMs
  /\ timers # {}

\* C18: after every handler the scheduler is armed exactly when mode is
\* "auto", paused is not set and the run is not over; manual mode, a pause
\* and the end of the run each leave no interval armed.
C18_ArmedIffAutoRunning ==
  (timers # {}) = (state.mode = "auto" /\ ~state.paused /\ ~state.gameOver)

\* the pause button stopped the interval of a running auto game
C18_Witness_Paused ==
  /\ last.op = "toggleTick"
  /\ prev.mode = "auto" /\ ~prev.paused
  /\ state.paused
  /\ timers = {}

\* C20: reset starts a run with the seed of the run it replaces: seed and the
\* initial rngState after reset are the seed the previous run started with.
C20_ResetKeepsSeed ==
  last.op = "reset" => (state.seed = prev.seed /\ state.rngState = prev.seed)

\* C19: whenever authority is 0 when a tick starts, having reached 0 inside
\* the tick before or through an event option or player action since, the run
\* has ended when that tick completes, as legitimacy collapse unless the
\* population ended it first.
C19_AuthorityZeroEndsRun ==
  (Ticked /\ prev.authority = 0) =>
    /\ state.gameOver
    /\ state.pop > MIGRATION_MIN_POP => endReason = AuthorityLine

\* C21: day starts at 1 and never exceeds WIN_DAY; within a run it never
\* decreases, an executed tick that does not end the run adds exactly 1, the
\* ending tick leaves it as it was, and so does every player action.
C21_DayAdvance ==
  /\ state.day >= 1
  /\ state.day <= WIN_DAY
  /\ last.op # "reset" => state.day >= prev.day
  /\ Ticked => state.day = (IF state.gameOver THEN prev.day ELSE prev.day + 1)
  /\ (~last.called /\ last.op # "reset") => state.day = prev.day

\* deficits phase 6 is tried with: none, the smallest, and the two around the
\* serious-famine threshold of the population
deficitsUpTo(s) ==
  {d \in {0, 1, s.pop * STARVATION_DEATH_DEFICIT_RATIO - 1,
          s.pop * STARVATION_DEATH_DEFICIT_RATIO} : d >= 0}

\* C22: on a tick whose deficit is at most 0.8 * pop (the population before
\* any death) phase 6 kills nobody: it leaves pop as it was and, of the
\* settlement's meters and stocks, lowers mood alone.
C22_NoDeathsBelowFamine ==
  /\ (Ticked /\ last.deficit <= prev.pop * STARVATION_DEATH_DEFICIT_RATIO) =>
       (last.deaths = 0 /\ state.pop = prev.pop - last.leaving)
  /\ \A d \in deficitsUpTo(state) :
       \E o \in {phaseStarvation(state, d)} :
         /\ o.deaths = 0
         /\ o.s.pop = state.pop
         /\ o.s.mood <= state.mood
         /\ o.s = [state EXCEPT !.mood = o.s.mood, !.starveDays = o.s.starveDays]

\* a hungry day below the threshold: mood fell and nobody died
C22_Witness_HungryNoDeaths ==
  /\ Ticked
  /\ last.deficit > 0
  /\ last.deficit <= prev.pop * STARVATION_DEATH_DEFICIT_RATIO
  /\ state.mood < prev.mood
  /\ state.pop = prev.pop

\* a tick of scenario B: no labor on food, no farm, no policy scaling the
\* demand, and the day ended in deficit
famineTick ==
  /\ Ticked
  /\ prev.workersFood = 0
  /\ last.demand = prev.pop * FOOD_CONSUMPTION_PER_POP
  /\ last.deficit > 0

\* C23: with zero food income and per-capita consumption 1.0 the run performs
\* 20 deficit ticks: on every deficit tick up to the twentieth the streak
\* grows by one, the run goes on, and pSubsistence is strictly greater after
\* the tick than before it.
C23_TwentyHungryDays ==
  (famineTick /\ prev.starveDays < 20) =>
    /\ state.starveDays = prev.starveDays + 1
    /\ state.pSubsistence > prev.pSubsistence
    /\ (state.starveDays < 20 => ~state.gameOver)

\* C24: extraction pressure only decays: no tick, player action or event
\* option raises pExtraction, so it is 0 in every reachable state.
C24_ExtractionNeverRises ==
  /\ state.pExtraction = 0
  /\ last.op # "reset" => state.pExtraction <= prev.pExtraction

\* the pressures a tick left are those phase 8 read
pressureSum(s) == s.pSubsistence + s.pSecurity + s.pExtraction

\* 0.25 + 0.045 pSubsistence + 0.04 pSecurity + 0.03 pExtraction
bleedOf(s) == 250 + MulK(s.pSubsistence, 45) + MulK(s.pSecurity, 40) + MulK(s.pExtraction, 30)

C26_DriftCappedAt85 ==
  (Ticked /\ state.mood > prev.mood) => state.mood <= MOOD_DRIFT_CAP

\* the three conditions of a qualifying day
flightDay(s) == s.pSubsistence >= 55 * SCALE /\ s.pSecurity >= 55 * SCALE /\ s.mood <= 35 * SCALE

\* C27: depopStreak grows by 1 on a tick where pSubsistence >= 55,
\* pSecurity >= 55 and mood <= 35 all hold at phase 9 and is 0 after any
\* other tick; while the updated streak is below 3, phase 9 removes nobody and
\* takes nothing from mood or authority.
C27_FlightNeedsStreak ==
  /\ \E o \in {phaseDepopulation(state)} :
       /\ o.s.depopStreak = (IF flightDay(state) THEN state.depopStreak + 1 ELSE 0)
       /\ o.s.depopStreak < 3 =>
            (o.leaving = 0 /\ o.s = [state EXCEPT !.depopStreak = o.s.depopStreak])
  /\ Ticked =>
       /\ last.leaving = 0 =>
            state.depopStreak = (IF flightDay(state) THEN prev.depopStreak + 1 ELSE 0)
       /\ last.leaving > 0 => (state.depopStreak = prev.depopStreak + 1 /\ flightDay(state))
       /\ state.depopStreak < 3 =>
            /\ last.leaving = 0
            /\ state.pop = prev.pop - last.deaths
            /\ state.authority =
                 (IF pressureSum(state) < 45 * SCALE /\ state.mood >= 45 * SCALE
                       /\ prev.authority < 85 * SCALE
                  THEN Min(prev.authority + 250, 100 * SCALE)
                  ELSE Max(prev.authority - bleedOf(state), 0))

\* the second qualifying day in a row: the streak is 2 and nobody has left
C27_Witness_ShortStreak ==
  /\ Ticked
  /\ prev.depopStreak = 1
  /\ state.depopStreak = 2
  /\ last.leaving = 0
  /\ state.pop = prev.pop - last.deaths

\* C28: a declared policy lasts its announced days.  ration sets rationing to
\* RATION_DAYS and feast sets feasting to FEAST_DAYS, and each executed tick
\* takes 1 off, so the tick that starts with the timer at r > 0 is one of the
\* announced days (the last one starts with the timer at 1): on every such
\* tick the day's food demand is pop * 0.75 under rationing and pop * 1.25
\* under a feast.
C28_PolicyLastsAnnouncedDays ==
  Ticked =>
    /\ prev.rationing > 0 =>
         last.demand = MulK(prev.pop * FOOD_CONSUMPTION_PER_POP, RATION_CONSUMPTION_MULT)
    /\ prev.feasting > 0 =>
         last.demand = MulK(prev.pop * FOOD_CONSUMPTION_PER_POP, FEAST_CONSUMPTION_MULT)

\* the eligibility condition of an event on the values phase 10 read
eligible(key, s) ==
  CASE key = "TRADERS" -> TRUE
    [] key = "THEFT" -> s.pSubsistence >= 55 * SCALE
    [] key = "RIOT" -> s.pSecurity >= 55 * SCALE \/ s.mood < 35 * SCALE
    [] key = "COUP_WHISPERS" ->
         s.authority < 45 * SCALE \/ s.pSubsistence + s.pSecurity > 110 * SCALE
    [] OTHER -> FALSE

\* C29: an event becomes pending only in phase 10 of a tick, and only if its
\* eligibility condition held there: TRADERS always, THEFT with
\* pSubsistence >= 55, RIOT with pSecurity >= 55 or mood < 35, COUP_WHISPERS
\* with authority < 45 or pSubsistence + pSecurity > 110.
C29_PendingEventWasEligible ==
  (state.activeEvent # "null" /\ state.activeEvent # prev.activeEvent) =>
    (Ticked /\ prev.activeEvent = "null" /\ eligible(state.activeEvent, state))

\* a tick made a conditional event pending
C29_Witness_ConditionalEvent ==
  /\ Ticked
  /\ prev.activeEvent = "null"
  /\ state.activeEvent \in {"THEFT", "RIOT", "COUP_WHISPERS"}
  /\ ~state.gameOver

\* C30: scenario A: one tick from the initial record (pop 30, food 80, no
\* farm, no policy) with all 30 workers on food and no event triggered
\* changes food by exactly workersFood * FOOD_PER_WORKER -
\* pop * FOOD_CONSUMPTION_PER_POP and leaves starveDays at 0.
C30_ScenarioAFoodBalance ==
  (/\ Ticked
   /\ prev = [INITIAL(DEFAULT_SEED) EXCEPT !.workersFood = 30, !.workersWood = 0,
                                           !.workersTools = 0, !.mode = prev.mode,
                                           !.paused = prev.paused,
                                           !.tickSpeedMs = prev.tickSpeedMs]
   /\ state.activeEvent = "null") =>
    /\ state.food = prev.food + prev.workersFood * FOOD_PER_WORKER
                      - prev.pop * FOOD_CONSUMPTION_PER_POP
    /\ state.starveDays = 0

\* deficits above the serious-famine threshold of the population: the
\* smallest one, the whole day's demand, and a feast day's demand
faminesOf(s) ==
  {s.pop * STARVATION_DEATH_DEFICIT_RATIO + 1,
   s.pop * FOOD_CONSUMPTION_PER_POP,
   MulK(s.pop * FOOD_CONSUMPTION_PER_POP, FEAST_CONSUMPTION_MULT)}

\* C31: on a serious-famine tick (deficit > 0.8 * pop) the starvation deaths
\* lie in [1, floor(0.35 * pop)], pop being the population before the deaths,
\* and the population after the starvation phase is not negative.
C31_FamineDeathsInRange ==
  /\ (Ticked /\ last.deficit > prev.pop * STARVATION_DEATH_DEFICIT_RATIO) =>
       /\ last.deaths >= 1
       /\ last.deaths <= FloorK(prev.pop * STARVE_DEATH_MAX_PER_DAY_RATIO)
       /\ prev.pop - last.deaths >= 0
       /\ state.pop >= 0
  /\ ~state.gameOver =>
       \A d \in faminesOf(state) :
         \E o \in {phaseStarvation(state, d)} :
           /\ o.deaths >= 1
           /\ o.deaths <= FloorK(state.pop * STARVE_DEATH_MAX_PER_DAY_RATIO)
           /\ o.s.pop = state.pop - o.deaths
           /\ o.s.pop >= 0

\* a serious famine day on which several people died, as many as the cap lets
C31_Witness_FamineDeaths ==
  /\ Ticked
  /\ last.deficit > prev.pop * STARVATION_DEATH_DEFICIT_RATIO
  /\ last.deaths > 1
  /\ last.deaths = FloorK(prev.pop * STARVE_DEATH_MAX_PER_DAY_RATIO)
  /\ state.pop + last.leaving = prev.pop - last.deaths

\* C32: applyPreset(name) with a defined preset name leaves three
\* non-negative labor values whose sum is exactly pop, for every pop >= 0,
\* and changes nothing else; with an unknown name it leaves the state as it
\* was.
C32_PresetFillsPop ==
  /\ last.op \in PresetNames =>
       /\ state.workersFood \in Nat /\ state.workersWood \in Nat /\ state.workersTools \in Nat
       /\ laborSum(state) = state.pop
       /\ state = [prev EXCEPT !.workersFood = state.workersFood,
                               !.workersWood = state.workersWood,
                               !.workersTools = state.workersTools]
  /\ last.op = "unknown" => state = prev

\* a preset whose floored shares fall short of the population, so that the
\* first loop handed out the rest
C32_Witness_Rounded ==
  /\ last.op = "balanced"
  /\ state.pop > 0
  /\ FloorK(state.pop * PRESETS.balanced.food) + FloorK(state.pop * PRESETS.balanced.wood)
       + FloorK(state.pop * PRESETS.balanced.tools) < state.pop
  /\ state.workersFood = FloorK(state.pop * PRESETS.balanced.food) + 1
  /\ laborSum(state) = state.pop

\* C33: in the famine-cutoff variant the run ends on the tick on which
\* starveDays reaches STARVE_DAYS_GAMEOVER: starveDays never exceeds 15, and
\* that tick ends the run as a famine collapse, triggers no event and leaves
\* day as it was.
C33_FamineCutoff ==
  /\ state.starveDays <= STARVE_DAYS_GAMEOVER
  /\ (Ticked /\ state.starveDays >= STARVE_DAYS_GAMEOVER) =>
       /\ prev.starveDays = STARVE_DAYS_GAMEOVER - 1
       /\ state.gameOver
       /\ endReason = "Famine collapse: 15 consecutive hungry days."
       /\ timers = {}
       /\ state.activeEvent = prev.activeEvent
       /\ state.day = prev.day
  /\ (~state.gameOver \/ endReason # "Famine collapse: 15 consecutive hungry days.") =>
       state.starveDays < STARVE_DAYS_GAMEOVER

\* the fifteenth hungry day of a run with no event pending, so that the tick
\* would have rolled for one had it gone on
C33_Witness_FifteenthDay ==
  /\ Ticked
  /\ prev.starveDays = STARVE_DAYS_GAMEOVER - 1
  /\ state.starveDays = STARVE_DAYS_GAMEOVER
  /\ prev.activeEvent = "null"
  /\ prev.pop > 0 /\ state.stability > 0
  /\ state.gameOver

\* C34: within one run the population never increases, whatever sequence of
\* ticks, player actions and event resolutions is played: after every step
\* other than reset pop is at most what it was before, and pop >= 0 always.
C34_PopNeverIncreases ==
  /\ state.pop \in Nat
  /\ last.op # "reset" => state.pop <= prev.pop
  /\ Ticked => state.pop = prev.pop - last.deaths - last.leaving

\* a tick on which people left the settlement and nobody starved
C34_Witness_PopFell ==
  /\ Ticked
  /\ last.leaving > 0
  /\ last.deaths = 0
  /\ state.pop = prev.pop - last.leaving
  /\ state.pop > 0

\* the step part of C35: an executed tick ends the run or advances the day, a
\* tick started on day WIN_DAY or later ends it, and a run that is not over
\* has seen fewer than WIN_DAY executed ticks (day - 1 of them)
tickBound ==
  /\ Ticked => (state.gameOver \/ state.day = prev.day + 1)
  /\ (Ticked /\ prev.day >= WIN_DAY) => state.gameOver
  /\ ~state.gameOver => state.day <= WIN_DAY
  /\ state.day <= WIN_DAY + 1

\* C35: the run cannot go on forever: every executed tick ends the run or
\* increments day, a tick with day >= WIN_DAY always ends it, so the run is
\* over after at most WIN_DAY executed ticks, and with the interval firing
\* fairly gameOver eventually holds.
C35_Termination == []tickBound /\ <>state.gameOver

\* the fiftieth executed tick of a run that nothing ended earlier
C35_Witness_LastTick ==
  /\ Ticked
  /\ prev.day = WIN_DAY
  /\ ~prev.gameOver
  /\ state.gameOver
  /\ state.win

\* the per-day cap of phase 9 for a population
migrationCap(pop) == Max(MIGRATION_PER_DAY_MIN, FloorK(pop * MIGRATION_PER_DAY_MAX_RATIO))

\* the record with all three emigration triggers met and a running streak k
fleeing(s, k) ==
  [s EXCEPT !.depopStreak = k, !.pSubsistence = MIGRATION_TRIGGER_PSUBS,
            !.pSecurity = MIGRATION_TRIGGER_PSEC, !.mood = MIGRATION_TRIGGER_MOOD]

\* C36: whenever emigration occurs the number leaving is
\* max(1, floor(0.08 * pop)), pop being the population before the departure,
\* whatever the length of depopStreak: from streak 3 on the streak-scaled
\* term 1 + floor(pop * streak * 0.12) is never below that cap.
C36_EmigrationAtCap ==
  /\ (Ticked /\ last.leaving > 0) =>
       /\ last.leaving = migrationCap(prev.pop - last.deaths)
       /\ state.pop = prev.pop - last.deaths - last.leaving
       /\ state.depopStreak >= MIGRATION_STREAK_START
  /\ \A k \in (MIGRATION_STREAK_START - 1)..(WIN_DAY - 1) :
       MIGRATION_PER_DAY_MIN + FloorK(state.pop * ((k + 1) * MIGRATION_STREAK_MULT))
         >= migrationCap(state.pop)
  /\ \A k \in {MIGRATION_STREAK_START - 1, MIGRATION_STREAK_START, WIN_DAY - 1} :
       phaseDepopulation(fleeing(state, k)).leaving =
         (IF state.pop > 0 THEN migrationCap(state.pop) ELSE 0)

\* people left on the second day of flight in a row, more than the minimum
\* of one and as many as on the first
C36_Witness_Emigration ==
  /\ Ticked
  /\ last.leaving > MIGRATION_PER_DAY_MIN
  /\ last.leaving = migrationCap(prev.pop - last.deaths)
  /\ state.depopStreak > MIGRATION_STREAK_START

\* the handlers that work on the settlement without an rng: the action
\* buttons, the presets and the three workforce sliders
rngFreeOps == {"buildFarm", "ration", "feast"} \cup PresetNames \cup {WorkKeys[i] : i \in 1..3}

\* C37: a tick executed while an event is pending makes no draw and leaves
\* rngState unchanged; a tick with no event pending advances rngState by
\* exactly one draw when no event triggers and by exactly two (the trigger
\* roll, then the weighted pick) when one does; buildFarm, ration, feast, the
\* presets and labor reallocation never change rngState.
C37_DrawsPerTick ==
  /\ (Ticked /\ prev.activeEvent # "null") =>
       /\ last.draws = 0
       /\ state.rngState = prev.rngState
       /\ state.activeEvent = prev.activeEvent
  /\ (Ticked /\ prev.activeEvent = "null") =>
       \E d1 \in {rngNext(prev.rngState, prev.rngState)} :
         IF state.activeEvent = "null"
         THEN last.draws = 1 /\ state.rngState = d1.rngState
         ELSE /\ last.draws = 2
              /\ state.rngState = rngNext(d1.a, d1.rngState).rngState
  /\ last.op \in rngFreeOps => state.rngState = prev.rngState

\* a tick that rolled, passed and picked an event: two draws
C37_Witness_TwoDraws ==
  /\ Ticked
  /\ prev.activeEvent = "null"
  /\ state.activeEvent # "null"
  /\ last.draws = 2
  /\ state.rngState # prev.rngState

\* C38: once the run has ended activeEvent never changes until reset: an
\* event that phase 10 triggered on the very tick that ended the run stays
\* pending, since ticks do nothing and clicks on its options are rejected.
C38_EventFrozenAfterEnd ==
  /\ (prev.gameOver /\ last.op # "reset") => state.activeEvent = prev.activeEvent
  /\ (last.op = "resolveEvent" /\ prev.gameOver) => state = prev

\* an option of the event the ending tick brought was clicked after the end,
\* and the event is still pending
C38_Witness_ClickAfterEnd ==
  /\ last.op = "resolveEvent"
  /\ prev.gameOver
  /\ prev.activeEvent # "null"
  /\ state.activeEvent = prev.activeEvent

\* C39: in every reachable state mode = "manual" implies paused = FALSE:
\* every step into manual mode clears paused and paused changes in auto mode
\* only, so no tick runs in manual mode with paused set.
C39_ManualNeverPaused ==
  /\ state.mode = "manual" => ~state.paused
  /\ (state.mode = "manual" /\ prev.mode # "manual") => ~state.paused
  /\ (state.paused # prev.paused /\ last.op # "reset") => prev.mode = "auto"
  /\ (Ticked /\ prev.mode = "manual") => ~prev.paused

\* the hotkey pressed while time was paused: manual mode, pause cleared
C39_Witness_HotkeyWhilePaused ==
  /\ last.op = "modeHotkey"
  /\ prev.mode = "auto" /\ prev.paused
  /\ state.mode = "manual" /\ ~state.paused

\* what is left of `overflow` after a slot holding n gave what it could
leftAfter(n, overflow) == overflow - Min(n, overflow)

\* C40: validateWorkforce result shape: when the clamped slots sum to at
\* most pop no slot changes beyond its clamp to [0, pop]; when they sum to
\* more, the sum after the call is exactly pop; and without a priority slot
\* (phase 1 of tick) the overflow is taken from workersFood first, then from
\* workersWood, then from workersTools.
C40_ValidateShape ==
  /\ (last.op \in WFKeys \cup {"phaseValidate"} /\ clampedSum(prev) <= prev.pop) =>
       \A k \in WFKeys : state[k] = clamped(prev, k)
  /\ (last.op \in WFKeys \cup {"phaseValidate"} /\ clampedSum(prev) > prev.pop) =>
       laborSum(state) = state.pop
  /\ (last.op = "phaseValidate" /\ clampedSum(prev) > prev.pop) =>
       \E f \in {clamped(prev, "workersFood")}, w \in {clamped(prev, "workersWood")},
          o \in {clampedSum(prev) - prev.pop} :
         /\ state.workersFood = f - Min(f, o)
         /\ state.workersWood = w - Min(w, leftAfter(f, o))
         /\ state.workersTools = clamped(prev, "workersTools")
                                   - Min(clamped(prev, "workersTools"),
                                         leftAfter(w, leftAfter(f, o)))
  /\ last.op \in WFKeys \cup {"phaseValidate"} =>
       state = [prev EXCEPT !.workersFood = state.workersFood,
                            !.workersWood = state.workersWood,
                            !.workersTools = state.workersTools]

\* phase 1 found more labor than people: the food slot was emptied, the wood
\* slot gave the rest and the tools slot kept its workers
C40_Witness_FoodThenWood ==
  /\ last.op = "phaseValidate"
  /\ clampedSum(prev) > prev.pop
  /\ clamped(prev, "workersFood") > 0
  /\ state.workersFood = 0
  /\ state.workersWood < clamped(prev, "workersWood")
  /\ state.workersTools = clamped(prev, "workersTools")
  /\ state.workersTools > 0

====
